---------------------------- MODULE Spec2Model ----------------------------
(***************************************************************************)
(* A model of the file-ingestion pipeline of dagster-poc: the SQS sensor   *)
(* and the orchestrator loop (dagster_ts), the S3 polling sensor, the      *)
(* enrichment handler, the chunked S3 reader, the file processor and the   *)
(* DynamoDB state manager (worker).                                        *)
(*                                                                         *)
(* Every component has its own specification (SpecSize, SpecChunks, ...).  *)
(* The variables of the components a specification does not exercise are   *)
(* held at their idle values.                                              *)
(***************************************************************************)
EXTENDS Integers, Sequences, FiniteSets, TLC

VARIABLES
    \* ---- task-size classification (resources.ts / s3-chunked-reader.ts)
    sizeIn,         \* the byte size handed to the classifiers
    routerTier,     \* result of S3Resource.getRecommendedTaskSize, "" before the call
    workerTier,     \* result of S3ChunkedReader.getRecommendedTaskSize, "" before the call
    \* ---- S3ChunkedReader.processInChunks
    ckFile,         \* [size, chunkSizeMB]: the file's size and the reader's chunk size
    ckPc,           \* "idle" | "loop" | "processor" | "returned" | "thrown"
    ckI,            \* the loop variable i
    ckCalls,        \* the ChunkInfo records handed to the processor, in call order
    ckBytes,        \* bytesProcessed
    ckEvents,       \* history: the fetches and processor calls started and settled, in order
    \* ---- DynamoStateManager (the ingest-state table)
    now,            \* the clock read by new Date() / Date.now(), in milliseconds
    table,          \* the table: a function from <<pk, sk>> to the item stored under that key
    stRuns,         \* the runs (dagsterRunId) that have called createIngestState
    stRepeat,       \* history: a markCompleted call found its record already marked completed
    \* ---- FileProcessor.process (worker/src/index.ts)
    prFile,         \* the object in S3: [contentType, ext, size, lines, shape, n, valid]
    prPc,           \* the await the call is at, "idle" before it, "returned" / "rejected" after it
    prState,        \* state: <<pk, sk>> of the record createIngestState returned, <<>> for null
    prStart,        \* startTime
    prRowCount,     \* this.rowCount
    prBytes,        \* bytesProcessed of processCsv / processJson
    prBatch,        \* batch.length
    prLeft,         \* the lines (records) the running loop has not reached yet
    prIsHeader,     \* isHeader of processCsv
    prErr,          \* errorMessage of the catch block, "" outside it
    prThrown,       \* history: the awaited steps that have thrown, in order
    prWrites,       \* history: the statuses the call has written to the table
    prFlushed,      \* history: the batches for which processBatch resolved, in order
    prReports,      \* the terminal messages sent through pipes, in order
    prResult,       \* the ProcessingResult returned
    \* ---- the SQS queue
    queue,          \* the ids of the messages in the queue
    delivered,      \* the messages receiveMessages has handed out so far
    \* ---- runSensorLoop and the orchestrator (sensor.ts, orchestrator main)
    orPc,           \* "idle" | "check" | "poll" | "handoff" | "dispatching" | "wait" | "stopped"
    aborted,        \* signal.aborted
    woken,          \* the abort listener of the wait under way has run
    orCycle,        \* history: the messages pollSensor returned in the cycle under way,
                    \* emptied when the cycle ends in the catch block
    orPending,      \* the run requests of the poll not yet handed to onRunRequest, the head being handled
    processedRunKeys,   \* the dedup set
    runs,           \* dashState.runs: one record per dispatch, in order
    sensorPolls,    \* dashState.sensorPolls
    orErrors,       \* the "Sensor poll error" lines runSensorLoop has logged
    \* ---- sensor-cli (SQS mode) and its caller
    cliPc,          \* "idle" | "output" | "handedOff" | "exited"
    cliReceived,    \* the ids of the messages the poll received
    cliOut,         \* the SensorOutput printed: [runRequests, receiptHandles]
    cliHanded,      \* the run requests the caller has handed off
    \* ---- the enrichment handler
    enEvents,       \* events: the batch the handler was invoked with
    enPc,           \* "idle" | "begin" | "config" | "validate" | "returned" | "rejected"
    enI,            \* the position in the batch of the entry being handled
    enResults,      \* results
    configCache,    \* the folders whose config the module-level cache holds
    enSamples,      \* history: per entry that was validated, what the read of its sample gave
    \* ---- pollS3Sensor
    psObjects,      \* objects: what s3.listObjects returned
    psPc,           \* "idle" | "query" | "returned" | "rejected"
    psI,            \* the position in objects of the object being checked
    psRequests,     \* runRequests
    psQueries,      \* history: for every object checked, whether its query succeeded
    \* ---- the runs started from the requests of the polling sensor
    wkRuns,         \* per run: its run key, its file, its position in process, its sort key
    \* ---- the dataset config lookups
    registry,       \* per routing key, the config the registry table holds (0: none)
    cachedConfig,   \* per routing key, the config the module-level cache holds (0: none)
    lookups,        \* history: the lookups made, each with its outcome and result
    \* ---- processFileWithPipes and the ECS task it waits for
    tkPc,           \* "idle" | "loop" | "final" | "returned" | "thrown"
    task,           \* what DescribeTasks gives for the task at this moment
    waited,         \* the iterations of the wait loop so far
    taskRunning,    \* taskRunning
    exitCode,       \* exitCode (NoNum for null)
    timedOut,       \* history: the loop ended by the bound with the task still running
    logErrors,      \* history: a read of the logs threw
    \* ---- validateFileStructure on a .json object
    smFile,         \* the object: its length and what its text is
    smColumns,      \* schema.requiredColumns
    smResult,       \* what validateFileStructure returned (error "none" before the call)
    \* ---- validateCsvColumns (column-validator)
    cvHeaders,      \* the cells of the header line
    cvValues,       \* the cells of the first data line
    cvSchema,       \* schema.requiredColumns
    cvLenient,      \* whether the engine's Date.parse accepts a string of digits
    cvPc,           \* "idle", "call", "returned"
    cvResult,       \* the ValidationResult returned
    \* ---- S3ChunkedReader.streamLines
    lnContent,      \* the text of the object, character by character
    lnCuts,         \* the byte positions after which the transport cuts the stream
    lnPc,           \* "idle", "read", "done"
    lnI,            \* the number of the next chunk
    lnBuffer,       \* buffer
    lnNumber,       \* lineNumber
    lnYielded       \* the { line, lineNumber } yielded so far

sizeVars  == <<sizeIn, routerTier, workerTier>>
chunkVars == <<ckFile, ckPc, ckI, ckCalls, ckBytes, ckEvents>>
storeVars == <<now, table, stRuns, stRepeat>>
queueVars == <<queue, delivered>>
loopVars  == <<orPc, aborted, woken, orCycle, orPending, processedRunKeys, runs, sensorPolls, orErrors>>
cliVars   == <<cliPc, cliReceived, cliOut, cliHanded>>
pushVars  == <<queueVars, loopVars, cliVars>>
enrichVars == <<enEvents, enPc, enI, enResults, configCache, enSamples>>
pollVars  == <<psObjects, psPc, psI, psRequests, psQueries>>
workVars  == <<wkRuns>>
lookupVars == <<registry, cachedConfig, lookups>>
taskVars  == <<tkPc, task, waited, taskRunning, exitCode, timedOut, logErrors>>
sampleVars == <<smFile, smColumns, smResult>>
colVars   == <<cvHeaders, cvValues, cvSchema, cvLenient, cvPc, cvResult>>
lineVars  == <<lnContent, lnCuts, lnPc, lnI, lnBuffer, lnNumber, lnYielded>>
fnVars    == <<colVars, lineVars>>
opsVars   == <<lookupVars, taskVars, sampleVars, fnVars>>
procVars  == <<prFile, prPc, prState, prStart, prRowCount, prBytes, prBatch, prLeft,
               prIsHeader, prErr, prThrown, prWrites, prFlushed, prReports, prResult>>

-----------------------------------------------------------------------------
(* Helpers *)

Min(a, b) == IF a < b THEN a ELSE b

\* 1024 * 1024, the divisor of both classifiers and the chunk-size factor
BytesPerMB == 1024 * 1024

\* Math.ceil(a / b) for a >= 0, b > 0
CeilDiv(a, b) == (a + b - 1) \div b

-----------------------------------------------------------------------------
(* Task-size classification *)

\* upper bound, in MB, of the sizes the classifiers are applied to
MaxSizeMB == 502

\* sizes around every whole number of MB up to MaxSizeMB
SizeDomain == { s \in { m * BytesPerMB + d : m \in 0..MaxSizeMB, d \in {-1, 0, 1} } : s >= 0 }

\* fileSizeBytes / (1024 * 1024): the quotient is exact in a double (division
\* by a power of two), kept here as whole MB and remaining bytes
SizeMb(fileSizeBytes) ==
    [whole |-> fileSizeBytes \div BytesPerMB, rest |-> fileSizeBytes % BytesPerMB]

\* sizeMb < n for an integer n
MbLess(sizeMb, n) == sizeMb.whole < n

\* a classifier that puts a boundary size in the lower tier
MbLessOrEqual(sizeMb, n) == sizeMb.whole < n \/ (sizeMb.whole = n /\ sizeMb.rest = 0)

S3ResourceTaskSizeOffByOne(fileSizeBytes) ==
    LET sizeMb == SizeMb(fileSizeBytes) IN
    IF MbLessOrEqual(sizeMb, 50) THEN "lambda"
    ELSE IF MbLess(sizeMb, 200) THEN "medium"
    ELSE IF MbLess(sizeMb, 500) THEN "large"
    ELSE "xlarge"

\* S3Resource.getRecommendedTaskSize (router side)
S3ResourceTaskSize(fileSizeBytes) ==
    LET sizeMb == SizeMb(fileSizeBytes) IN
    IF MbLess(sizeMb, 50) THEN "lambda"
    ELSE IF MbLess(sizeMb, 200) THEN "medium"
    ELSE IF MbLess(sizeMb, 500) THEN "large"
    ELSE "xlarge"

\* S3ChunkedReader.getRecommendedTaskSize (worker side)
ReaderTaskSize(fileSizeBytes) ==
    LET sizeMB == SizeMb(fileSizeBytes) IN
    IF MbLess(sizeMB, 50) THEN "small"
    ELSE IF MbLess(sizeMB, 200) THEN "medium"
    ELSE IF MbLess(sizeMB, 500) THEN "large"
    ELSE "xlarge"

SizeIdle == sizeIn = 0 /\ routerTier = "" /\ workerTier = ""

ClassifyRouter ==
    /\ routerTier = ""
    /\ routerTier' = S3ResourceTaskSize(sizeIn)
    /\ UNCHANGED <<sizeIn, workerTier>>

ClassifyWorker ==
    /\ workerTier = ""
    /\ workerTier' = ReaderTaskSize(sizeIn)
    /\ UNCHANGED <<sizeIn, routerTier>>

-----------------------------------------------------------------------------
(* S3ChunkedReader.processInChunks *)

\* largest file size, in MB, and largest chunkSizeMB of the chunked reader
MaxFileMB == 5
MaxChunkMB == 3

ChunkFileDomain ==
    { s \in { m * BytesPerMB + d : m \in 0..MaxFileMB, d \in {-1, 0, 1} } : s >= 0 }

ChunkIdle ==
    /\ ckFile = [size |-> 0, chunkSizeMB |-> 1]
    /\ ckPc = "idle" /\ ckI = 0 /\ ckCalls = <<>> /\ ckBytes = 0 /\ ckEvents = <<>>

\* const chunkSize = this.chunkSizeMB * 1024 * 1024
ChunkSize(f) == f.chunkSizeMB * BytesPerMB

\* const totalChunks = Math.ceil(fileInfo.size / chunkSize)
TotalChunks(f) == CeilDiv(f.size, ChunkSize(f))

\* Math.min(startByte + chunkSize, fileInfo.size - 1): the end one byte too far
EndByteOverlapping(f, i) == Min(i * ChunkSize(f) + ChunkSize(f), f.size - 1)

\* const endByte = Math.min(startByte + chunkSize - 1, fileInfo.size - 1)
EndByte(f, i) == Min(i * ChunkSize(f) + ChunkSize(f) - 1, f.size - 1)

\* the ChunkInfo of iteration i
ChunkInfoOf(f, i) ==
    [chunkIndex |-> i,
     totalChunks |-> TotalChunks(f),
     startByte |-> i * ChunkSize(f),
     endByte |-> EndByte(f, i),
     size |-> EndByte(f, i) - i * ChunkSize(f) + 1]

ChunkEvent(op, i) == [op |-> op, i |-> i]

\* iteration i is entered when i < totalChunks, and its first act is the call
\* of fetchChunk
WithFetchOf(events, f, i) ==
    IF i < TotalChunks(f) THEN Append(events, ChunkEvent("fetch", i)) ELSE events

\* the call: the loop is entered with i = 0 and bytesProcessed = 0
ProcessInChunksStart ==
    /\ ckPc = "idle"
    /\ ckPc' = "loop"
    /\ ckI' = 0
    /\ ckBytes' = 0
    /\ ckEvents' = WithFetchOf(ckEvents, ckFile, 0)
    /\ UNCHANGED <<ckFile, ckCalls>>

\* iteration i: fetchChunk resolves with the bytes startByte..endByte of the
\* range request, and the processor is called with them and the ChunkInfo
ChunkFetched ==
    /\ ckPc = "loop"
    /\ ckI < TotalChunks(ckFile)
    /\ ckPc' = "processor"
    /\ ckCalls' = Append(ckCalls, ChunkInfoOf(ckFile, ckI))
    /\ ckEvents' = Append(ckEvents, ChunkEvent("call", ckI))
    /\ UNCHANGED <<ckFile, ckI, ckBytes>>

\* a loop that logs the error of a fetch and goes on with the next chunk
ChunkFetchFailsSkipping ==
    /\ ckPc = "loop"
    /\ ckI < TotalChunks(ckFile)
    /\ ckI' = ckI + 1
    /\ ckEvents' = WithFetchOf(Append(ckEvents, ChunkEvent("fetchFailed", ckI)), ckFile, ckI + 1)
    /\ UNCHANGED <<ckFile, ckPc, ckCalls, ckBytes>>

\* iteration i: fetchChunk rejects; the error is logged and rethrown
ChunkFetchFails ==
    /\ ckPc = "loop"
    /\ ckI < TotalChunks(ckFile)
    /\ ckPc' = "thrown"
    /\ ckEvents' = Append(ckEvents, ChunkEvent("fetchFailed", ckI))
    /\ UNCHANGED <<ckFile, ckI, ckCalls, ckBytes>>

\* the processor resolves: bytesProcessed += data.length, then i++
ProcessorReturns ==
    /\ ckPc = "processor"
    /\ ckBytes' = ckBytes + ckCalls[Len(ckCalls)].size
    /\ ckI' = ckI + 1
    /\ ckPc' = "loop"
    /\ ckEvents' = WithFetchOf(Append(ckEvents, ChunkEvent("done", ckI)), ckFile, ckI + 1)
    /\ UNCHANGED <<ckFile, ckCalls>>

\* the processor rejects; the error is logged and rethrown
ProcessorThrows ==
    /\ ckPc = "processor"
    /\ ckPc' = "thrown"
    /\ ckEvents' = Append(ckEvents, ChunkEvent("callFailed", ckI))
    /\ UNCHANGED <<ckFile, ckI, ckCalls, ckBytes>>

\* i = totalChunks: return { chunksProcessed: totalChunks, bytesProcessed }
ChunkReturn ==
    /\ ckPc = "loop"
    /\ ckI >= TotalChunks(ckFile)
    /\ ckPc' = "returned"
    /\ UNCHANGED <<ckFile, ckI, ckCalls, ckBytes, ckEvents>>

-----------------------------------------------------------------------------
(* DynamoStateManager *)

\* the clock stops advancing at MaxTime
MaxTime == 1

\* an attribute an item does not have: -1 for a number, "" for a string
NoNum == 0 - 1
NoStr == ""
NoMeta == [bytesProcessed |-> NoNum, chunksProcessed |-> NoNum, durationMs |-> NoNum]

IngestStatus == {"PENDING", "VALIDATING", "PROCESSING", "COMPLETED", "FAILED"}

\* ttl = Math.floor(Date.now() / 1000) + 30 * 24 * 60 * 60, kept in the clock's
\* unit as the distance added to the creation time
TtlSeconds == 30 * 24 * 60 * 60

\* pk: `FILE#${bucket}#${key}`
PkOf(bucket, key) == "FILE#" \o bucket \o "#" \o key

\* sk: `STATE#${now}` with now an ISO-8601 UTC timestamp of millisecond
\* resolution: two sort keys are equal iff the two clock readings are, and they
\* sort as the readings do; the reading stands for the key
SkOf(t) == t

StoreIdle == now = 0 /\ table = <<>> /\ stRuns = {} /\ stRepeat = FALSE

\* the item a PutCommand of createIngestState writes
NewIngestState(bucket, key, fileSize, dagsterRunId, taskSize, t) ==
    [pk |-> PkOf(bucket, key), sk |-> SkOf(t), bucket |-> bucket, key |-> key,
     status |-> "PENDING", fileSize |-> fileSize, startedAt |-> t,
     dagsterRunId |-> dagsterRunId, taskSize |-> taskSize, ttl |-> t + TtlSeconds,
     rowCount |-> NoNum, chunksProcessed |-> NoNum, totalChunks |-> NoNum,
     errorMessage |-> NoStr, completedAt |-> NoNum, metadata |-> NoMeta]

\* the item an UpdateCommand finds when no item has the key: the key alone
KeyOnlyItem(pk, sk) ==
    [pk |-> pk, sk |-> sk, bucket |-> NoStr, key |-> NoStr,
     status |-> NoStr, fileSize |-> NoNum, startedAt |-> NoNum,
     dagsterRunId |-> NoStr, taskSize |-> NoStr, ttl |-> NoNum,
     rowCount |-> NoNum, chunksProcessed |-> NoNum, totalChunks |-> NoNum,
     errorMessage |-> NoStr, completedAt |-> NoNum, metadata |-> NoMeta]

\* PutCommand: the item replaces whatever is stored under its key
PutItem(t, item) ==
    [k \in DOMAIN t \cup {<<item.pk, item.sk>>} |->
        IF k = <<item.pk, item.sk>> THEN item ELSE t[k]]

IsTerminal(status) == status = "COMPLETED" \/ status = "FAILED"

\* an updateStatus that stamps completedAt only when the item has none
UpdatedItemKeepFirstStamp(item, status, updates, t) ==
    [f \in DOMAIN item |->
        IF f = "status" THEN status
        ELSE IF f = "completedAt" /\ IsTerminal(status) /\ item.completedAt = NoNum THEN t
        ELSE IF f \in DOMAIN updates \ {"pk", "sk", "status"} THEN updates[f]
        ELSE item[f]]

\* an updateStatus that stamps completedAt for COMPLETED alone
UpdatedItemStampCompletedOnly(item, status, updates, t) ==
    [f \in DOMAIN item |->
        IF f = "status" THEN status
        ELSE IF f = "completedAt" /\ status = "COMPLETED" THEN t
        ELSE IF f \in DOMAIN updates \ {"pk", "sk", "status"} THEN updates[f]
        ELSE item[f]]

\* the SET expression of updateStatus applied to an item: status, then every
\* entry of updates but pk, sk and status, then completedAt when the status is
\* COMPLETED or FAILED; the attributes not named keep their values
UpdatedItem(item, status, updates, t) ==
    [f \in DOMAIN item |->
        IF f = "status" THEN status
        ELSE IF f = "completedAt" /\ IsTerminal(status) THEN t
        ELSE IF f \in DOMAIN updates \ {"pk", "sk", "status"} THEN updates[f]
        ELSE item[f]]

\* an update that addresses the records of the file by pk alone
UpdateStatusOpByFile(t, pk, sk, status, updates, at) ==
    [x \in DOMAIN t \cup {<<pk, sk>>} |->
        IF x[1] = pk
        THEN UpdatedItem(IF x \in DOMAIN t THEN t[x] ELSE KeyOnlyItem(pk, sk),
                         status, updates, at)
        ELSE t[x]]

\* DynamoStateManager.updateStatus: an UpdateCommand on Key {pk, sk}
UpdateStatusOp(t, pk, sk, status, updates, at) ==
    LET k == <<pk, sk>>
        old == IF k \in DOMAIN t THEN t[k] ELSE KeyOnlyItem(pk, sk)
    IN  [x \in DOMAIN t \cup {k} |->
            IF x = k THEN UpdatedItem(old, status, updates, at) ELSE t[x]]

\* DynamoStateManager.updateProgress
UpdateProgressOp(t, pk, sk, chunksProcessed, totalChunks, rowCount, at) ==
    UpdateStatusOp(t, pk, sk, "PROCESSING",
        IF rowCount # NoNum
        THEN [chunksProcessed |-> chunksProcessed, totalChunks |-> totalChunks,
              rowCount |-> rowCount]
        ELSE [chunksProcessed |-> chunksProcessed, totalChunks |-> totalChunks],
        at)

\* DynamoStateManager.markCompleted
MarkCompletedOp(t, pk, sk, rowCount, metadata, at) ==
    UpdateStatusOp(t, pk, sk, "COMPLETED",
        [rowCount |-> rowCount, metadata |-> metadata], at)

\* DynamoStateManager.markFailed
MarkFailedOp(t, pk, sk, errorMessage, at) ==
    UpdateStatusOp(t, pk, sk, "FAILED", [errorMessage |-> errorMessage], at)

\* the items of a file, and DynamoStateManager.getLatestState: the item with
\* the greatest sort key (ScanIndexForward: false, Limit: 1)
ItemsOf(t, pk) == { k \in DOMAIN t : k[1] = pk }

HasLatest(t, pk) == ItemsOf(t, pk) # {}

LatestOf(t, pk) ==
    t[CHOOSE k \in ItemsOf(t, pk) : \A o \in ItemsOf(t, pk) : o[2] <= k[2]]

(* The calls of the state manager, made by a caller that holds the keys of  *)
(* the records createIngestState returned.                                  *)

StoreBucket == "in"
StoreKeys == {"a.bin"}
RunIds == {"run1", "run2"}
RowCounts == {7}
SomeMeta == [bytesProcessed |-> 10, chunksProcessed |-> 1, durationMs |-> 0]
ErrorMessages == {"boom"}

\* the partial updates handed to updateStatus directly: none, or one that
\* names the key and the status beside a field
DirectUpdates ==
    { <<>> , [status |-> "COMPLETED", pk |-> "x", taskSize |-> "small"] }

\* the item is as markCompleted leaves it
MarkedCompleted(item) == item.status = "COMPLETED" /\ item.metadata # NoMeta

\* time passes
Tick ==
    /\ now < MaxTime
    /\ now' = now + 1
    /\ UNCHANGED <<table, stRuns, stRepeat>>

\* every run creates the record of its file once
CreateIngestState ==
    \E key \in StoreKeys, run \in RunIds \ stRuns :
        /\ table' = PutItem(table, NewIngestState(StoreBucket, key, 10, run, "small", now))
        /\ stRuns' = stRuns \cup {run}
        /\ UNCHANGED <<now, stRepeat>>

UpdateStatus ==
    \E k \in DOMAIN table, status \in IngestStatus, updates \in DirectUpdates :
        /\ table' = UpdateStatusOp(table, k[1], k[2], status, updates, now)
        /\ UNCHANGED <<now, stRuns, stRepeat>>

UpdateProgress ==
    \E k \in DOMAIN table, rc \in RowCounts \cup {NoNum} :
        /\ table' = UpdateProgressOp(table, k[1], k[2], 1, 2, rc, now)
        /\ UNCHANGED <<now, stRuns, stRepeat>>

MarkCompleted ==
    \E k \in DOMAIN table, rc \in RowCounts :
        /\ table' = MarkCompletedOp(table, k[1], k[2], rc, SomeMeta, now)
        /\ stRepeat' = (stRepeat \/ MarkedCompleted(table[k]))
        /\ UNCHANGED <<now, stRuns>>

MarkFailed ==
    \E k \in DOMAIN table, msg \in ErrorMessages :
        /\ table' = MarkFailedOp(table, k[1], k[2], msg, now)
        /\ UNCHANGED <<now, stRuns, stRepeat>>

-----------------------------------------------------------------------------
(* FileProcessor.process *)

\* const batchSize = 1000, and the checkpoint at this.rowCount % 10000 === 0
BatchSize == 1000
CheckpointRows == 10000

\* the largest file holds MaxBatches full batches and one record more
MaxBatches == 10

\* the awaited steps that reject in one call of process
MaxFaults == 2

\* the bytes of a line, its newline not counted
LineBytes == 9

\* process.env.TASK_SIZE || "small", and config.dagsterRunId
CurrentSize == "small"
ProcRunId == "run1"

\* state = null, and the result before the call returns
NoState == <<>>
NoResult ==
    [success |-> FALSE, rowCount |-> NoNum, bytesProcessed |-> NoNum,
     chunksProcessed |-> NoNum, error |-> NoStr]

RecordCounts ==
    {0, 1, BatchSize, BatchSize + 1, MaxBatches * BatchSize, MaxBatches * BatchSize + 1}

\* an object of `lines` non-blank lines; the content type is in lower case,
\* "" when S3 gives none
FileOf(ct, ext, size, lines, shape, n, valid) ==
    [contentType |-> ct, ext |-> ext, size |-> size, lines |-> lines,
     shape |-> shape, n |-> n, valid |-> valid]

TextFileOf(ct, ext, lines, shape, n, valid) ==
    FileOf(ct, ext, lines * (LineBytes + 1), lines, shape, n, valid)

\* a header line and r rows, or nothing at all
CsvFiles ==
    { TextFileOf(t[1], t[2], l, "", 0, 0) :
        t \in {<<"text/csv", "json">>, <<"", "csv">>},
        l \in {0} \cup { r + 1 : r \in RecordCounts } }

\* shape: what JSON.parse makes of the whole content ("array" of n records,
\* a single "value", or "lines" when it throws); valid: the lines that parse
\* on their own.  An array is written on one line (the line parses, as the
\* array) or one record per line with a trailing comma on all but the last.
JsonFiles ==
    LET types == {<<"application/json", "bin">>, <<"", "json">>} IN
    { TextFileOf(t[1], t[2], 1, "array", n, 1) : t \in types, n \in RecordCounts }
    \cup { TextFileOf(t[1], t[2], n + 2, "array", n, IF n > 0 THEN 1 ELSE 0) :
             t \in types, n \in RecordCounts }
    \cup { TextFileOf(t[1], t[2], 1, "value", 1, 1) : t \in types }
    \cup { TextFileOf(t[1], t[2], x[1] + x[2], "lines", 0, x[1]) :
             t \in types,
             x \in { y \in RecordCounts \X {0, 1} : y # <<1, 0>> } }

BinaryFiles ==
    { FileOf(ct, "bin", s, 0, "", 0, 0) :
        ct \in {"", "application/octet-stream"}, s \in ChunkFileDomain }

\* contentType.includes("csv") / contentType.includes("json")
CsvTypes == {"text/csv"}
JsonTypes == {"application/json"}

\* FileProcessor.processFileInChunks: the strategy for a file
Strategy(f) ==
    IF f.contentType \in CsvTypes \/ f.ext = "csv" THEN "csv"
    ELSE IF f.contentType \in JsonTypes \/ f.ext = "json" THEN "json"
    ELSE "binary"

ProcKey(f) == "a." \o f.ext

ProcIdle ==
    /\ prFile = FileOf("", "bin", 0, 0, "", 0, 0)
    /\ prPc = "idle" /\ prState = NoState /\ prStart = 0
    /\ prRowCount = 0 /\ prBytes = 0 /\ prBatch = 0 /\ prLeft = 0
    /\ prIsHeader = TRUE /\ prErr = NoStr /\ prThrown = <<>> /\ prWrites = {}
    /\ prFlushed = <<>>
    /\ prReports = <<>> /\ prResult = NoResult

procLoop == <<prRowCount, prBytes, prBatch, prLeft, prIsHeader>>
procOut  == <<prReports, prResult>>

\* a batch handed to processBatch: the number of its first record, counted
\* from 1 in the order of the file, and its length
BatchOf(first, size) == [first |-> first, size |-> size]


\* the function awaited at a position, and the message of its Error
StepOf(pc) ==
    CASE pc \in {"csvLines", "jsonRead"} -> "streamLines"
      [] pc \in {"csvBatch", "csvTail", "jsonArrayBatch", "jsonLinesBatch", "jsonTail"}
            -> "processBatch"
      [] pc \in {"csvCheckpoint", "jsonArrayCheckpoint", "jsonLinesCheckpoint",
                 "chunkUpdate"} -> "updateProgress"
      [] pc = "chunks" -> "fetchChunk"
      [] pc = "chunkHook" -> "processChunk"
      [] OTHER -> pc

ErrorOf(step) == step \o " failed"

\* the steps that have thrown
Thrown == { prThrown[i] : i \in 1..Len(prThrown) }

\* a catch block that never marks the record
AfterCatchWithoutMark(state) == "reportFailure"

\* catch (error): if (state) markFailed, then reportFailure
AfterCatch(state) == IF state # NoState THEN "markFailed" ELSE "reportFailure"

\* the awaited step rejects and the rejection reaches the catch block of process
Throws ==
    /\ Len(prThrown) < MaxFaults
    /\ prErr' = ErrorOf(StepOf(prPc))
    /\ prThrown' = Append(prThrown, StepOf(prPc))
    /\ prPc' = AfterCatch(prState)
    /\ UNCHANGED <<prFile, prState, prStart, procLoop, prWrites, procOut, prFlushed, table>>

\* the positions whose rejection nothing but process catches
Propagating ==
    {"getFileInfo", "createIngestState", "updateStatus", "csvLines", "csvBatch",
     "csvCheckpoint", "csvTail", "jsonRead", "jsonTail", "markCompleted"}

\* a call of pipes throws where process or processCsv makes one outside any
\* try of its own: reportProgress at the checkpoint of processCsv, and
\* reportAssetMaterialization / reportSuccess after markCompleted; the
\* exception reaches the catch block of process
ReportThrows ==
    /\ prPc \in {"csvCheckpoint", "reportSuccess"}
    /\ Len(prThrown) < MaxFaults
    /\ prErr' = ErrorOf("report")
    /\ prThrown' = Append(prThrown, "report")
    /\ prPc' = AfterCatch(prState)
    /\ UNCHANGED <<prFile, prState, prStart, procLoop, prWrites, procOut, prFlushed, table, chunkVars>>

ProcessStart ==
    /\ prPc = "idle"
    /\ prStart' = now
    /\ prPc' = "getFileInfo"
    /\ UNCHANGED <<prFile, prState, procLoop, prErr, prThrown, prWrites, procOut, prFlushed,
                   table, chunkVars>>

StepThrows ==
    /\ prPc \in Propagating
    /\ Throws
    /\ UNCHANGED chunkVars

GetFileInfoOk ==
    /\ prPc = "getFileInfo"
    /\ prPc' = "createIngestState"
    /\ UNCHANGED <<prFile, prState, prStart, procLoop, prErr, prThrown, prWrites,
                   procOut, prFlushed, table, chunkVars>>

CreateStateOk ==
    /\ prPc = "createIngestState"
    /\ table' = PutItem(table, NewIngestState(StoreBucket, ProcKey(prFile), prFile.size,
                                              ProcRunId, CurrentSize, now))
    /\ prState' = <<PkOf(StoreBucket, ProcKey(prFile)), SkOf(now)>>
    /\ prWrites' = prWrites \cup {"PENDING"}
    /\ prPc' = "updateStatus"
    /\ UNCHANGED <<prFile, prStart, procLoop, prErr, prThrown, procOut, prFlushed, chunkVars>>

\* updateStatus(PROCESSING), then processFileInChunks picks the strategy
UpdateStatusOk ==
    /\ prPc = "updateStatus"
    /\ table' = UpdateStatusOp(table, prState[1], prState[2], "PROCESSING", <<>>, now)
    /\ prWrites' = prWrites \cup {"PROCESSING"}
    /\ prPc' = (CASE Strategy(prFile) = "csv" -> "csvLines"
                  [] Strategy(prFile) = "json" -> "jsonRead"
                  [] OTHER -> "binary")
    /\ prLeft' = (IF Strategy(prFile) = "csv" THEN prFile.lines ELSE 0)
    /\ UNCHANGED <<prFile, prState, prStart, prRowCount, prBytes, prBatch, prIsHeader,
                   prErr, prThrown, procOut, prFlushed, chunkVars>>

\* the records a loop pushes before its next await: up to a full batch, one
\* when the batch is full already, never more than are left
Take(batch, left) == Min(left, IF batch >= BatchSize THEN 1 ELSE BatchSize - batch)

\* the position after t records were pushed: the await of processBatch inside
\* the loop, the one after it, or the return when the batch is empty
AfterTake(t, batch, batchPc, tailPc) ==
    IF t > 0 /\ batch >= BatchSize THEN batchPc
    ELSE IF batch > 0 THEN tailPc
    ELSE "markCompleted"

\* the position after processBatch resolved inside a loop
AfterBatch(rowCount, checkpointPc, loopPc) ==
    IF rowCount % CheckpointRows = 0 THEN checkpointPc ELSE loopPc

(* processCsv *)

\* a loop that counts the header line as a row
CsvLinesCountingHeader ==
    /\ prPc = "csvLines"
    /\ LET t == Take(prBatch, prLeft)
       IN  /\ prIsHeader' = FALSE
           /\ prBytes' = prBytes + t * LineBytes
           /\ prLeft' = prLeft - t
           /\ prBatch' = prBatch + t
           /\ prRowCount' = prRowCount + t
           /\ prPc' = AfterTake(t, prBatch + t, "csvBatch", "csvTail")
    /\ UNCHANGED <<prFile, prState, prStart, prErr, prThrown, prWrites, procOut, prFlushed,
                   table, chunkVars>>

\* the lines streamLines yields up to the next await of processBatch: the
\* header first, then rows until the batch is full or the stream ends
CsvLines ==
    /\ prPc = "csvLines"
    /\ LET h == IF prIsHeader /\ prLeft > 0 THEN 1 ELSE 0
           t == Take(prBatch, prLeft - h)
       IN  /\ prIsHeader' = (prIsHeader /\ h = 0)
           /\ prBytes' = prBytes + (h + t) * LineBytes
           /\ prLeft' = prLeft - h - t
           /\ prBatch' = prBatch + t
           /\ prRowCount' = prRowCount + t
           /\ prPc' = AfterTake(t, prBatch + t, "csvBatch", "csvTail")
    /\ UNCHANGED <<prFile, prState, prStart, prErr, prThrown, prWrites, procOut, prFlushed,
                   table, chunkVars>>

\* a loop that does not empty the batch after the flush
CsvBatchOkKeepingBatch ==
    /\ prPc = "csvBatch"
    /\ prPc' = AfterBatch(prRowCount, "csvCheckpoint", "csvLines")
    /\ prFlushed' = Append(prFlushed, BatchOf(prRowCount - prBatch + 1, prBatch))
    /\ UNCHANGED <<prFile, prState, prStart, procLoop, prErr, prThrown, prWrites,
                   procOut, table, chunkVars>>

\* await this.processBatch(batch); batch = []
CsvBatchOk ==
    /\ prPc = "csvBatch"
    /\ prBatch' = 0
    /\ prPc' = AfterBatch(prRowCount, "csvCheckpoint", "csvLines")
    /\ prFlushed' = Append(prFlushed, BatchOf(prRowCount - prBatch + 1, prBatch))
    /\ UNCHANGED <<prFile, prState, prStart, prRowCount, prBytes, prLeft, prIsHeader,
                   prErr, prThrown, prWrites, procOut, table, chunkVars>>

\* pipes.reportProgress, then await updateProgress(floor(bytes / MB), ceil(size / MB), rowCount)
CsvCheckpointOk ==
    /\ prPc = "csvCheckpoint"
    /\ table' = UpdateProgressOp(table, prState[1], prState[2],
                                 prBytes \div BytesPerMB, CeilDiv(prFile.size, BytesPerMB),
                                 prRowCount, now)
    /\ prWrites' = prWrites \cup {"PROCESSING"}
    /\ prPc' = "csvLines"
    /\ UNCHANGED <<prFile, prState, prStart, procLoop, prErr, prThrown, procOut, prFlushed, chunkVars>>

\* if (batch.length > 0) await this.processBatch(batch); return
CsvTailOk ==
    /\ prPc = "csvTail"
    /\ prPc' = "markCompleted"
    /\ prFlushed' = (IF prBatch > 0
                     THEN Append(prFlushed, BatchOf(prRowCount - prBatch + 1, prBatch))
                     ELSE prFlushed)
    /\ UNCHANGED <<prFile, prState, prStart, procLoop, prErr, prThrown, prWrites,
                   procOut, table, chunkVars>>

(* processJson *)

\* the whole content is read, then JSON.parse(entireContent): an array starts
\* the record loop, a single value is pushed, a SyntaxError starts the
\* JSON Lines loop over the lines that parse
JsonReadOk ==
    /\ prPc = "jsonRead"
    /\ prBytes' = prFile.lines * (LineBytes + 1)
    /\ prLeft' = (CASE prFile.shape = "array" -> prFile.n
                    [] prFile.shape = "lines" -> prFile.valid
                    [] OTHER -> 0)
    /\ prBatch' = (IF prFile.shape = "value" THEN 1 ELSE 0)
    /\ prRowCount' = (IF prFile.shape = "value" THEN prRowCount + 1 ELSE prRowCount)
    /\ prPc' = (CASE prFile.shape = "array" -> "jsonArray"
                  [] prFile.shape = "lines" -> "jsonLines"
                  [] OTHER -> "jsonTail")
    /\ UNCHANGED <<prFile, prState, prStart, prIsHeader, prErr, prThrown, prWrites,
                   procOut, prFlushed, table, chunkVars>>

\* for (const record of parsed), up to the next await
JsonArray ==
    /\ prPc = "jsonArray"
    /\ LET t == Take(prBatch, prLeft) IN
           /\ prLeft' = prLeft - t
           /\ prBatch' = prBatch + t
           /\ prRowCount' = prRowCount + t
           /\ prPc' = AfterTake(t, prBatch + t, "jsonArrayBatch", "jsonTail")
    /\ UNCHANGED <<prFile, prState, prStart, prBytes, prIsHeader, prErr, prThrown,
                   prWrites, procOut, prFlushed, table, chunkVars>>

JsonArrayBatchOk ==
    /\ prPc = "jsonArrayBatch"
    /\ prBatch' = 0
    /\ prPc' = AfterBatch(prRowCount, "jsonArrayCheckpoint", "jsonArray")
    /\ prFlushed' = Append(prFlushed, BatchOf(prRowCount - prBatch + 1, prBatch))
    /\ UNCHANGED <<prFile, prState, prStart, prRowCount, prBytes, prLeft, prIsHeader,
                   prErr, prThrown, prWrites, procOut, table, chunkVars>>

\* await updateProgress(rowCount, parsed.length, rowCount)
JsonArrayCheckpointOk ==
    /\ prPc = "jsonArrayCheckpoint"
    /\ table' = UpdateProgressOp(table, prState[1], prState[2],
                                 prRowCount, prFile.n, prRowCount, now)
    /\ prWrites' = prWrites \cup {"PROCESSING"}
    /\ prPc' = "jsonArray"
    /\ UNCHANGED <<prFile, prState, prStart, procLoop, prErr, prThrown, procOut, prFlushed, chunkVars>>

\* an await inside try { JSON.parse ... } rejects: the catch that stands for
\* "not a JSON array" takes it, and the JSON Lines loop starts over the lines
\* of the content with the batch and the row count as they are
JsonArrayThrows ==
    /\ prPc \in {"jsonArrayBatch", "jsonArrayCheckpoint"}
    /\ Len(prThrown) < MaxFaults
    /\ prThrown' = Append(prThrown, StepOf(prPc))
    /\ prLeft' = prFile.valid
    /\ prPc' = "jsonLines"
    /\ UNCHANGED <<prFile, prState, prStart, prRowCount, prBytes, prBatch, prIsHeader,
                   prErr, prWrites, procOut, prFlushed, table, chunkVars>>

\* for (const line of lines), up to the next await; the lines that do not
\* parse are skipped
JsonLines ==
    /\ prPc = "jsonLines"
    /\ LET t == Take(prBatch, prLeft) IN
           /\ prLeft' = prLeft - t
           /\ prBatch' = prBatch + t
           /\ prRowCount' = prRowCount + t
           /\ prPc' = AfterTake(t, prBatch + t, "jsonLinesBatch", "jsonTail")
    /\ UNCHANGED <<prFile, prState, prStart, prBytes, prIsHeader, prErr, prThrown,
                   prWrites, procOut, prFlushed, table, chunkVars>>

JsonLinesBatchOk ==
    /\ prPc = "jsonLinesBatch"
    /\ prBatch' = 0
    /\ prPc' = AfterBatch(prRowCount, "jsonLinesCheckpoint", "jsonLines")
    /\ prFlushed' = Append(prFlushed, BatchOf(prRowCount - prBatch + 1, prBatch))
    /\ UNCHANGED <<prFile, prState, prStart, prRowCount, prBytes, prLeft, prIsHeader,
                   prErr, prThrown, prWrites, procOut, table, chunkVars>>

\* await updateProgress(rowCount, lines.length, rowCount); split("\n") gives
\* one element more than the content has lines
JsonLinesCheckpointOk ==
    /\ prPc = "jsonLinesCheckpoint"
    /\ table' = UpdateProgressOp(table, prState[1], prState[2],
                                 prRowCount, prFile.lines + 1, prRowCount, now)
    /\ prWrites' = prWrites \cup {"PROCESSING"}
    /\ prPc' = "jsonLines"
    /\ UNCHANGED <<prFile, prState, prStart, procLoop, prErr, prThrown, procOut, prFlushed, chunkVars>>

\* an await inside the try of the JSON Lines loop rejects: the catch that
\* stands for "invalid line" takes it and the loop goes on with the next line
JsonLinesThrows ==
    /\ prPc \in {"jsonLinesBatch", "jsonLinesCheckpoint"}
    /\ Len(prThrown) < MaxFaults
    /\ prThrown' = Append(prThrown, StepOf(prPc))
    /\ prPc' = "jsonLines"
    /\ UNCHANGED <<prFile, prState, prStart, procLoop, prErr, prWrites, procOut, prFlushed,
                   table, chunkVars>>

JsonTailOk ==
    /\ prPc = "jsonTail"
    /\ prPc' = "markCompleted"
    /\ prFlushed' = (IF prBatch > 0
                     THEN Append(prFlushed, BatchOf(prRowCount - prBatch + 1, prBatch))
                     ELSE prFlushed)
    /\ UNCHANGED <<prFile, prState, prStart, procLoop, prErr, prThrown, prWrites,
                   procOut, table, chunkVars>>

(* processBinary *)

BinaryStart ==
    /\ prPc = "binary"
    /\ ProcessInChunksStart
    /\ prPc' = "chunks"
    /\ UNCHANGED <<prFile, prState, prStart, procLoop, prErr, prThrown, prWrites,
                   procOut, prFlushed, table>>

\* the chunk arrives and the handler starts: this.rowCount += data.length
BinaryFetched ==
    /\ prPc = "chunks"
    /\ ChunkFetched
    /\ prRowCount' = prRowCount + ChunkInfoOf(ckFile, ckI).size
    /\ prPc' = "chunkUpdate"
    /\ UNCHANGED <<prFile, prState, prStart, prBytes, prBatch, prLeft, prIsHeader,
                   prErr, prThrown, prWrites, procOut, prFlushed, table>>

BinaryFetchFails ==
    /\ prPc = "chunks"
    /\ ChunkFetchFails
    /\ Throws

\* await updateProgress(chunkIndex + 1, totalChunks, rowCount)
BinaryUpdateOk ==
    /\ prPc = "chunkUpdate"
    /\ table' = UpdateProgressOp(table, prState[1], prState[2],
                                 ckI + 1, TotalChunks(ckFile), prRowCount, now)
    /\ prWrites' = prWrites \cup {"PROCESSING"}
    /\ prPc' = "chunkHook"
    /\ UNCHANGED <<prFile, prState, prStart, procLoop, prErr, prThrown, procOut, prFlushed, chunkVars>>

\* await this.processChunk(data, chunkInfo), and the handler resolves
BinaryHookOk ==
    /\ prPc = "chunkHook"
    /\ ProcessorReturns
    /\ prPc' = "chunks"
    /\ UNCHANGED <<prFile, prState, prStart, procLoop, prErr, prThrown, prWrites,
                   procOut, prFlushed, table>>

BinaryHandlerThrows ==
    /\ prPc \in {"chunkUpdate", "chunkHook"}
    /\ ProcessorThrows
    /\ Throws

BinaryReturn ==
    /\ prPc = "chunks"
    /\ ChunkReturn
    /\ prBytes' = ckBytes
    /\ prPc' = "markCompleted"
    /\ UNCHANGED <<prFile, prState, prStart, prRowCount, prBatch, prLeft, prIsHeader,
                   prErr, prThrown, prWrites, procOut, prFlushed, table>>

(* the end of process *)

ChunksProcessed == IF Strategy(prFile) = "binary" THEN TotalChunks(ckFile) ELSE 1

MarkCompletedOk ==
    /\ prPc = "markCompleted"
    /\ table' = MarkCompletedOp(table, prState[1], prState[2], prRowCount,
                    [bytesProcessed |-> prBytes, chunksProcessed |-> ChunksProcessed,
                     durationMs |-> now - prStart], now)
    /\ prWrites' = prWrites \cup {"COMPLETED"}
    /\ prPc' = "reportSuccess"
    /\ UNCHANGED <<prFile, prState, prStart, procLoop, prErr, prThrown, procOut, prFlushed, chunkVars>>

\* reportAssetMaterialization, reportSuccess, return { success: true, ... }
ReturnSuccess ==
    /\ prPc = "reportSuccess"
    /\ prReports' = prReports \o <<"asset", "success">>
    /\ prResult' = [success |-> TRUE, rowCount |-> prRowCount, bytesProcessed |-> prBytes,
                    chunksProcessed |-> ChunksProcessed, error |-> NoStr]
    /\ prPc' = "returned"
    /\ UNCHANGED <<prFlushed, prFile, prState, prStart, procLoop, prErr, prThrown, prWrites,
                   table, chunkVars>>

MarkFailedOk ==
    /\ prPc = "markFailed"
    /\ table' = MarkFailedOp(table, prState[1], prState[2], prErr, now)
    /\ prWrites' = prWrites \cup {"FAILED"}
    /\ prPc' = "reportFailure"
    /\ UNCHANGED <<prFile, prState, prStart, procLoop, prErr, prThrown, procOut, prFlushed, chunkVars>>

\* markFailed rejects inside the catch block: process rejects
MarkFailedThrows ==
    /\ prPc = "markFailed"
    /\ Len(prThrown) < MaxFaults
    /\ prThrown' = Append(prThrown, "markFailed")
    /\ prPc' = "rejected"
    /\ UNCHANGED <<prFile, prState, prStart, procLoop, prErr, prWrites, procOut, prFlushed,
                   table, chunkVars>>

\* reportFailure, return { success: false, ..., error: errorMessage }
ReturnFailure ==
    /\ prPc = "reportFailure"
    /\ prReports' = Append(prReports, "failure")
    /\ prResult' = [success |-> FALSE, rowCount |-> prRowCount, bytesProcessed |-> 0,
                    chunksProcessed |-> 0, error |-> prErr]
    /\ prPc' = "returned"
    /\ UNCHANGED <<prFlushed, prFile, prState, prStart, procLoop, prErr, prThrown, prWrites,
                   table, chunkVars>>

-----------------------------------------------------------------------------
(* The SQS queue and pollSensor (dagster_ts/src/sensor.ts) *)

\* sqs.receiveMessages(10)
MaxReceive == 10

\* the messages SQS hands out in all the polls of a run of the model
MaxDeliveries == 3

ObjectOf(bucket, key, size, etag) ==
    [bucket |-> bucket, key |-> key, size |-> size, etag |-> etag]

NoEnrichment ==
    [registered |-> FALSE, dataset_id |-> NoStr, schema_version |-> NoStr,
     compute_target |-> NoStr]

\* a message body: kind "invalid" is no JSON, "null" is the JSON null, "raw"
\* holds Records, "enriched" holds original_event and enrichment_data,
\* "original" holds original_event alone; a field that is absent is NoStr / NoNum
BodyOf(kind, enrichment, records) ==
    [kind |-> kind, enrichment |-> enrichment, records |-> records]

MessageOf(id, handle, hasBody, body) ==
    [MessageId |-> id, ReceiptHandle |-> handle, hasBody |-> hasBody, body |-> body]

MessageIds == {"m1", "m2", "m3", "m4"}

\* the messages of the sensor taken alone
SensorMessageIds == MessageIds \cup {"m5", "m6", "m7"}

\* m1: a raw S3 event; m2: the same object and etag again, enriched and forced
\* to LAMBDA; m3: a body that is no JSON; m4: an enriched event of an
\* unregistered file, with a record that has no key beside it; m5: a raw
\* event of three records, the first the key of m1 overwritten (a new etag),
\* the second without a bucket; m6: an enriched event of a registered file
\* routed by size; m7: a message without a Body
Catalogue(id) ==
    CASE id = "m1" ->
           MessageOf(id, "h1", TRUE,
               BodyOf("raw", NoEnrichment, <<ObjectOf("in", "a.csv", 60 * BytesPerMB, "e1")>>))
      [] id = "m2" ->
           MessageOf(id, "h2", TRUE,
               BodyOf("enriched",
                      [registered |-> TRUE, dataset_id |-> "ds", schema_version |-> "1",
                       compute_target |-> "LAMBDA"],
                      <<ObjectOf("in", "a.csv", 60 * BytesPerMB, "e1")>>))
      [] id = "m3" ->
           MessageOf(id, "h3", TRUE, BodyOf("invalid", NoEnrichment, <<>>))
      [] id = "m5" ->
           MessageOf(id, "h5", TRUE,
               BodyOf("raw", NoEnrichment,
                      <<ObjectOf("in", "a.csv", 250 * BytesPerMB, "e2"),
                        ObjectOf(NoStr, "x.csv", 5, "e3"),
                        ObjectOf("in", "c.csv", 10 * BytesPerMB, "e4")>>))
      [] id = "m6" ->
           MessageOf(id, "h6", TRUE,
               BodyOf("enriched",
                      [registered |-> TRUE, dataset_id |-> "ds", schema_version |-> "1",
                       compute_target |-> "AUTO"],
                      <<ObjectOf("in", "d.csv", 600 * BytesPerMB, "e5")>>))
      [] id = "m7" ->
           MessageOf(id, "h7", FALSE, BodyOf("invalid", NoEnrichment, <<>>))
      [] OTHER ->
           MessageOf(id, "h4", TRUE,
               BodyOf("enriched",
                      [registered |-> FALSE, dataset_id |-> NoStr, schema_version |-> NoStr,
                       compute_target |-> NoStr],
                      <<ObjectOf("in", "b.csv", NoNum, NoStr), ObjectOf("in", NoStr, 5, "e2")>>))

PushIdle ==
    /\ queue = {} /\ delivered = 0
    /\ orPc = "idle" /\ aborted = FALSE /\ woken = FALSE /\ orCycle = {} /\ orPending = <<>>
    /\ processedRunKeys = {} /\ runs = <<>> /\ sensorPolls = 0 /\ orErrors = 0
    /\ cliPc = "idle" /\ cliReceived = <<>>
    /\ cliOut = [runRequests |-> <<>>, receiptHandles |-> <<>>]
    /\ cliHanded = <<>>

\* the records parseS3Records returns for a body that parses: those with a
\* bucket and a key, the size defaulting to 0 and the etag to ""
ParsedRecords(body) ==
    LET HasBucketAndKey(r) == r.bucket # NoStr /\ r.key # NoStr
        kept == SelectSeq(body.records, HasBucketAndKey)
    IN  [i \in 1..Len(kept) |->
            [bucket |-> kept[i].bucket, key |-> kept[i].key,
             size |-> IF kept[i].size = NoNum THEN 0 ELSE kept[i].size,
             etag |-> kept[i].etag,
             enriched |-> body.kind = "enriched",
             enrichment_data |-> IF body.kind = "enriched" THEN body.enrichment
                                 ELSE NoEnrichment]]

\* parseS3Records: JSON.parse throws a SyntaxError on a body that is no JSON,
\* parsed.original_event throws a TypeError on null; original_event without
\* enrichment_data is read as a raw event, which has no Records
ParseS3Records(body) ==
    CASE body.kind \in {"invalid", "null"} -> [ok |-> FALSE, records |-> <<>>]
      [] body.kind = "original" -> [ok |-> TRUE, records |-> <<>>]
      [] OTHER -> [ok |-> TRUE, records |-> ParsedRecords(body)]

\* Math.round((size / (1024 * 1024)) * 100) / 100, in hundredths of a MB
FileSizeMbHundredths(size) ==
    (size \div BytesPerMB) * 100
        + (2 * 100 * (size % BytesPerMB) + BytesPerMB) \div (2 * BytesPerMB)

\* a sensor that routes by size alone
TaskSizeOfBySizeAlone(r) == S3ResourceTaskSize(r.size)

\* compute_target LAMBDA forces "lambda"; otherwise the size decides
TaskSizeOf(r) ==
    IF r.enriched /\ r.enrichment_data.compute_target = "LAMBDA" THEN "lambda"
    ELSE S3ResourceTaskSize(r.size)

\* runKey: `${record.bucket}/${record.key}/${record.etag}`
RunKeyOf(bucket, key, etag) == bucket \o "/" \o key \o "/" \o etag

RunRequestOf(r) ==
    [runKey |-> RunKeyOf(r.bucket, r.key, r.etag),
     config |-> [s3Bucket |-> r.bucket, s3Key |-> r.key, taskSize |-> TaskSizeOf(r)],
     tags |-> [s3_bucket |-> r.bucket, s3_key |-> r.key,
               file_size_mb |-> FileSizeMbHundredths(r.size),
               task_size |-> TaskSizeOf(r),
               dataset_id |-> r.enrichment_data.dataset_id,
               schema_version |-> r.enrichment_data.schema_version]]

\* a sensor that has no check of enrichment_data.registered
RequestsOfMessageKeepingUnregistered(m) ==
    LET kept == ParseS3Records(m.body).records
    IN  [i \in 1..Len(kept) |-> RunRequestOf(kept[i])]

\* the run requests of one message: none for the records of an unregistered file
RequestsOfMessage(m) ==
    LET Registered(r) == ~(r.enriched /\ ~r.enrichment_data.registered)
        kept == SelectSeq(ParseS3Records(m.body).records, Registered)
    IN  [i \in 1..Len(kept) |-> RunRequestOf(kept[i])]

\* the body of the try block ran to its end for the message
Handled(m) == m.hasBody /\ ParseS3Records(m.body).ok

RECURSIVE PollOutputEndingAtError(_)
\* a pollSensor whose try encloses the loop over the messages
PollOutputEndingAtError(messages) ==
    IF messages = <<>> THEN [runRequests |-> <<>>, receiptHandles |-> <<>>]
    ELSE LET m == Head(messages)
             rest == PollOutputEndingAtError(Tail(messages))
         IN  IF Handled(m)
             THEN [runRequests |-> RequestsOfMessage(m) \o rest.runRequests,
                   receiptHandles |->
                       (IF m.ReceiptHandle # NoStr THEN <<m.ReceiptHandle>> ELSE <<>>)
                           \o rest.receiptHandles]
             ELSE IF m.hasBody THEN [runRequests |-> <<>>, receiptHandles |-> <<>>]
             ELSE rest

RECURSIVE PollOutputHandlesOfRouted(_)
\* a pollSensor that collects the handle of a message only when one of its
\* records was routed
PollOutputHandlesOfRouted(messages) ==
    IF messages = <<>> THEN [runRequests |-> <<>>, receiptHandles |-> <<>>]
    ELSE LET m == Head(messages)
             rest == PollOutputHandlesOfRouted(Tail(messages))
         IN  IF Handled(m)
             THEN [runRequests |-> RequestsOfMessage(m) \o rest.runRequests,
                   receiptHandles |->
                       (IF m.ReceiptHandle # NoStr /\ RequestsOfMessage(m) # <<>>
                        THEN <<m.ReceiptHandle>> ELSE <<>>)
                           \o rest.receiptHandles]
             ELSE rest

RECURSIVE PollOutput(_)
\* pollSensor after receiveMessages: the requests of the messages that were
\* handled, in order, and the receipt handles of those messages
PollOutput(messages) ==
    IF messages = <<>> THEN [runRequests |-> <<>>, receiptHandles |-> <<>>]
    ELSE LET m == Head(messages)
             rest == PollOutput(Tail(messages))
         IN  IF Handled(m)
             THEN [runRequests |-> RequestsOfMessage(m) \o rest.runRequests,
                   receiptHandles |->
                       (IF m.ReceiptHandle # NoStr THEN <<m.ReceiptHandle>> ELSE <<>>)
                           \o rest.receiptHandles]
             ELSE rest

\* a pollSensor that deletes every message it handled (sqs.deleteMessage
\* after the records of the message)
QueueAfterPollDeleting(q, ids) ==
    q \ { ids[i] : i \in { j \in 1..Len(ids) : Handled(Catalogue(ids[j])) } }

\* the queue after pollSensor: no message is deleted
QueueAfterPoll(q, ids) == q

\* what receiveMessages may return: up to MaxReceive messages of the queue, in
\* any order, within the deliveries left
Receivable(q, d) ==
    LET most == Min(Min(MaxReceive, Cardinality(q)), MaxDeliveries - d) IN
    { s \in UNION { [1..n -> q] : n \in 0..most } :
        \A i, j \in 1..Len(s) : i # j => s[i] # s[j] }

MessagesOf(ids) == [i \in 1..Len(ids) |-> Catalogue(ids[i])]

\* an S3 notification arrives in the queue
SendMessage ==
    /\ \E id \in MessageIds \ queue : queue' = queue \cup {id}
    /\ UNCHANGED <<delivered, loopVars, cliVars>>

-----------------------------------------------------------------------------
(* runSensorLoop and the orchestrator's onRunRequest *)

\* a dedup set that records the key however the dispatch ended
ProcessedAfterEveryDispatch(keys, runKey, succeeded) == keys \cup {runKey}

\* processedRunKeys after a dispatch: the key is added when
\* processFileWithPipes resolved, not when it rejected
ProcessedAfter(keys, runKey, succeeded) ==
    IF succeeded THEN keys \cup {runKey} ELSE keys

\* runSensorLoop is called
LoopStart ==
    /\ orPc = "idle"
    /\ orPc' = "check"
    /\ UNCHANGED <<queue, delivered, aborted, woken, orPending, processedRunKeys, runs,
                   sensorPolls, orErrors, orCycle, cliVars>>

\* a loop condition that does not look at the signal
LoopCheckIgnoringSignal ==
    /\ orPc = "check"
    /\ orPc' = "poll"
    /\ UNCHANGED <<queue, delivered, aborted, woken, orPending, processedRunKeys, runs,
                   sensorPolls, orErrors, orCycle, cliVars>>

\* while (!signal?.aborted)
LoopCheck ==
    /\ orPc = "check"
    /\ orPc' = (IF aborted THEN "stopped" ELSE "poll")
    /\ UNCHANGED <<queue, delivered, aborted, woken, orPending, processedRunKeys, runs,
                   sensorPolls, orErrors, orCycle, cliVars>>

\* await pollSensor(options) resolves
LoopPoll ==
    /\ orPc = "poll"
    /\ \E ids \in Receivable(queue, delivered) :
          /\ delivered' = delivered + Len(ids)
          /\ queue' = QueueAfterPoll(queue, ids)
          /\ orPending' = PollOutput(MessagesOf(ids)).runRequests
          /\ orCycle' = { ids[i] : i \in 1..Len(ids) }
          /\ orPc' = (IF PollOutput(MessagesOf(ids)).runRequests = <<>>
                      THEN "wait" ELSE "handoff")
    /\ UNCHANGED <<aborted, woken, processedRunKeys, runs, sensorPolls, orErrors, cliVars>>

\* a catch block that lets the error end the loop
LoopAfterCatchEnds == "stopped"

\* catch (error) { logger.error(...) }: the loop goes on to its wait
LoopAfterCatch == "wait"

\* receiveMessages rejects: the loop logs the error and waits
LoopPollThrows ==
    /\ orPc = "poll"
    /\ orErrors < MaxFaults
    /\ orErrors' = orErrors + 1
    /\ orCycle' = {}
    /\ orPc' = LoopAfterCatch
    /\ UNCHANGED <<queue, delivered, aborted, woken, orPending, processedRunKeys, runs,
                   sensorPolls, cliVars>>

\* the callback handed to runSensorLoop throws: the loop logs the error,
\* leaves the requests of the cycle that are left, and waits
OnRunRequestThrows ==
    /\ orPc = "handoff"
    /\ orErrors < MaxFaults
    /\ orErrors' = orErrors + 1
    /\ orPending' = <<>>
    /\ orCycle' = {}
    /\ orPc' = LoopAfterCatch
    /\ UNCHANGED <<queue, delivered, aborted, woken, processedRunKeys, runs, sensorPolls,
                   cliVars>>

\* onRunRequest up to its await: the request of a processed key is skipped,
\* any other gets a run record and is dispatched
OnRunRequest ==
    /\ orPc = "handoff"
    /\ sensorPolls' = sensorPolls + 1
    /\ IF Head(orPending).runKey \in processedRunKeys
       THEN /\ orPending' = Tail(orPending)
            /\ orPc' = (IF Tail(orPending) = <<>> THEN "wait" ELSE "handoff")
            /\ UNCHANGED runs
       ELSE /\ runs' = Append(runs, [runKey |-> Head(orPending).runKey,
                                     status |-> "running"])
            /\ orPc' = "dispatching"
            /\ UNCHANGED orPending
    /\ UNCHANGED <<queue, delivered, aborted, woken, processedRunKeys, orErrors, orCycle, cliVars>>

\* the run record of the dispatch under way is the last one pushed
FinishRun(rs, status) == [rs EXCEPT ![Len(rs)].status = status]

\* processFileWithPipes resolves (exit code 0)
DispatchOk ==
    /\ orPc = "dispatching"
    /\ runs' = FinishRun(runs, "success")
    /\ processedRunKeys' = ProcessedAfter(processedRunKeys, Head(orPending).runKey, TRUE)
    /\ orPending' = Tail(orPending)
    /\ orPc' = (IF Tail(orPending) = <<>> THEN "wait" ELSE "handoff")
    /\ UNCHANGED <<queue, delivered, aborted, woken, sensorPolls, orErrors, orCycle, cliVars>>

\* processFileWithPipes rejects (launch error, non-zero exit code, timeout)
DispatchThrows ==
    /\ orPc = "dispatching"
    /\ runs' = FinishRun(runs, "failed")
    /\ processedRunKeys' = ProcessedAfter(processedRunKeys, Head(orPending).runKey, FALSE)
    /\ orPending' = Tail(orPending)
    /\ orPc' = (IF Tail(orPending) = <<>> THEN "wait" ELSE "handoff")
    /\ UNCHANGED <<queue, delivered, aborted, woken, sensorPolls, orErrors, orCycle, cliVars>>

\* setTimeout(resolve, intervalMs): the interval passes and the wait ends
LoopWait ==
    /\ orPc = "wait"
    /\ ~woken
    /\ orPc' = "check"
    /\ UNCHANGED <<queue, delivered, aborted, woken, orPending, processedRunKeys, runs,
                   sensorPolls, orErrors, orCycle, cliVars>>

\* the abort listener has cleared the timer and resolved the wait
LoopWoken ==
    /\ orPc = "wait"
    /\ woken
    /\ orPc' = "check"
    /\ woken' = FALSE
    /\ UNCHANGED <<queue, delivered, aborted, orPending, processedRunKeys, runs,
                   sensorPolls, orErrors, orCycle, cliVars>>

\* SIGINT / SIGTERM: controller.abort() sets signal.aborted and runs the
\* listeners registered by then: the one of the wait under way, if any
Abort ==
    /\ orPc # "idle"
    /\ ~aborted
    /\ aborted' = TRUE
    /\ woken' = (orPc = "wait")
    /\ UNCHANGED <<queue, delivered, orPc, orPending, processedRunKeys, runs,
                   sensorPolls, orErrors, orCycle, cliVars>>

-----------------------------------------------------------------------------
(* sensor-cli in SQS mode, and the sensor that calls it *)

\* sensor-cli: output = await pollSensor(...), printed as JSON
CliPoll ==
    /\ cliPc = "idle"
    /\ \E ids \in Receivable(queue, delivered) :
          /\ delivered' = delivered + Len(ids)
          /\ queue' = QueueAfterPoll(queue, ids)
          /\ cliReceived' = ids
          /\ cliOut' = PollOutput(MessagesOf(ids))
    /\ cliHanded' = <<>>
    /\ cliPc' = "output"
    /\ UNCHANGED loopVars

\* receiveMessages rejects: main().catch prints the error and exits with 1
CliPollThrows ==
    /\ cliPc = "idle"
    /\ cliPc' = "exited"
    /\ UNCHANGED <<queue, delivered, loopVars, cliReceived, cliOut, cliHanded>>

\* the next invocation of the CLI
CliAgain ==
    /\ cliPc = "exited"
    /\ cliPc' = "idle"
    /\ UNCHANGED <<queue, delivered, loopVars, cliReceived, cliOut, cliHanded>>

\* the caller hands the run requests of the output to the run launcher
CallerHandsOff ==
    /\ cliPc = "output"
    /\ cliHanded' = cliOut.runRequests
    /\ cliPc' = "handedOff"
    /\ UNCHANGED <<queue, delivered, loopVars, cliReceived, cliOut>>

\* the caller fails before the hand-off is confirmed: nothing is deleted
CallerFails ==
    /\ cliPc = "output"
    /\ cliPc' = "exited"
    /\ UNCHANGED <<queue, delivered, loopVars, cliReceived, cliOut, cliHanded>>

\* the messages a list of receipt handles names
MessagesWithHandles(handles) ==
    { id \in MessageIds :
        \E i \in 1..Len(handles) : Catalogue(id).ReceiptHandle = handles[i] }

\* after the hand-off the caller deletes the messages by their receipt handles
CallerDeletes ==
    /\ cliPc = "handedOff"
    /\ queue' = queue \ MessagesWithHandles(cliOut.receiptHandles)
    /\ cliPc' = "exited"
    /\ UNCHANGED <<delivered, loopVars, cliReceived, cliOut, cliHanded>>

\* an S3 notification or a Pipe envelope of any shape arrives in the queue
SensorSend ==
    /\ \E id \in SensorMessageIds \ queue : queue' = queue \cup {id}
    /\ UNCHANGED <<delivered, loopVars, cliVars>>

-----------------------------------------------------------------------------
(* The enrichment handler (worker/src/enrichment-handler.ts) *)

\* the longest batch handed to the handler
MaxEvents == 2

\* the S3 key of a record: its folder ("" when the key has no slash), its
\* extension in lower case, and whether its percent-encoding is malformed
KeyOf(folder, ext, malformed) == [folder |-> folder, ext |-> ext, malformed |-> malformed]

\* an s3_event: tag tells the events apart ("undefined" when the entry has no
\* s3_event); records is "none" (no Records), "empty", "bad" (Records[0] has no
\* s3.object) or "ok"
S3EventOf(tag, records, key) == [tag |-> tag, records |-> records, key |-> key]

\* an entry of the batch; isNull: the entry is null or undefined
EntryOf(isNull, s3_event) == [isNull |-> isNull, s3_event |-> s3_event]

NoKey == KeyOf("", "", FALSE)
Undefined == S3EventOf("undefined", "none", NoKey)

EnrichEntries ==
    { EntryOf(TRUE, Undefined),
      EntryOf(FALSE, Undefined),
      EntryOf(FALSE, S3EventOf("e3", "empty", NoKey)),
      EntryOf(FALSE, S3EventOf("e4", "bad", NoKey)),
      EntryOf(FALSE, S3EventOf("e5", "ok", KeyOf("sales", ".csv", TRUE))),
      EntryOf(FALSE, S3EventOf("e6", "ok", KeyOf("sales", ".tmp", FALSE))),
      EntryOf(FALSE, S3EventOf("e7", "ok", KeyOf("", ".csv", FALSE))),
      EntryOf(FALSE, S3EventOf("e8", "ok", KeyOf("other", ".csv", FALSE))),
      EntryOf(FALSE, S3EventOf("e9", "ok", KeyOf("sales", ".json", FALSE))),
      EntryOf(FALSE, S3EventOf("e10", "ok", KeyOf("sales", ".csv", FALSE))),
      EntryOf(FALSE, S3EventOf("e11", "ok", KeyOf("raw", ".bin", FALSE))) }

\* const JUNK_EXTENSIONS = [".tmp", ".crdownload"]
JunkExtensions == {".tmp", ".crdownload"}

IsJunkFile(key) == key.ext \in JunkExtensions

\* the DATASET#{folder} CONFIG records of the config table
\* sales: CSV files with required columns; raw: any file, no columns required
ConfigFolders == {"sales", "raw"}

ConfigOf(folder) ==
    [dataset_id |-> folder \o "_ds", schema_version |-> "1",
     compute_target |-> (IF folder = "raw" THEN "LAMBDA" ELSE "FARGATE"),
     allowed_extensions |-> (IF folder = "raw" THEN {} ELSE {".csv"}),
     required_columns |-> (IF folder = "raw" THEN {} ELSE {"id"})]

\* what the read of the first bytes of the object gives: the GetObject
\* rejects, the decoding of the body throws, the body is empty, it has fewer
\* than two lines (CSV) or no record (JSON), its first record does not have
\* the required columns, or it has them; "none" when nothing is read.  For a
\* .json key there is one more, "invalidJson": neither the sample nor its
\* first line is a JSON text (JsonSample below derives it from the content)
Samples == {"fetchThrows", "decodeThrows", "empty", "short", "mismatch", "match"}

ValidationOf(valid, error) == [valid |-> valid, error |-> error]

\* a validation whose catch block reports the error as a failure
ValidateFileStructureFailClosed(key, requiredColumns, sample) ==
    IF requiredColumns = {} \/ key.ext \notin {".csv", ".json"}
    THEN ValidationOf(TRUE, NoStr)
    ELSE CASE sample \in {"fetchThrows", "decodeThrows"} -> ValidationOf(FALSE, "Validation error")
           [] sample = "empty" -> ValidationOf(FALSE, "Empty file")
           [] sample = "short" -> ValidationOf(FALSE, "no header or records")
           [] sample = "invalidJson" -> ValidationOf(FALSE, "Invalid JSON format")
           [] sample = "mismatch" -> ValidationOf(FALSE, "Missing required column")
           [] OTHER -> ValidationOf(TRUE, NoStr)

\* validateFileStructure: no required columns or another extension than
\* .csv / .json: valid without a read; an exception of the read or of the
\* checks is caught and gives valid (fail open)
ValidateFileStructure(key, requiredColumns, sample) ==
    IF requiredColumns = {} \/ key.ext \notin {".csv", ".json"}
    THEN ValidationOf(TRUE, NoStr)
    ELSE CASE sample \in {"fetchThrows", "decodeThrows"} -> ValidationOf(TRUE, NoStr)
           [] sample = "empty" -> ValidationOf(FALSE, "Empty file")
           [] sample = "short" -> ValidationOf(FALSE, "no header or records")
           [] sample = "invalidJson" -> ValidationOf(FALSE, "Invalid JSON format")
           [] sample = "mismatch" -> ValidationOf(FALSE, "Missing required column")
           [] OTHER -> ValidationOf(TRUE, NoStr)

\* whether validateFileStructure reads the object at all
ReadsSample(key, requiredColumns) ==
    requiredColumns # {} /\ key.ext \in {".csv", ".json"}

\* a check that lets every extension through
IsExtensionAllowedAlways(key, allowedExtensions) == TRUE

\* isExtensionAllowed: no list, or the extension is in the list
IsExtensionAllowed(key, allowedExtensions) ==
    allowedExtensions = {} \/ key.ext \in allowedExtensions

\* enrichment_data of an entry that is not registered
Unregistered ==
    [registered |-> FALSE, dataset_id |-> NoStr, schema_version |-> NoStr,
     compute_target |-> NoStr, validation_status |-> NoStr, validation_error |-> NoStr]

EnrichedOf(s3_event, enrichment_data) ==
    [original_event |-> s3_event.tag, enrichment_data |-> enrichment_data]

EnrichIdle ==
    /\ enEvents = <<>> /\ enPc = "idle" /\ enI = 1 /\ enResults = <<>>
    /\ configCache = {} /\ enSamples = <<>>

\* an entry is done: the loop takes the next one, or the handler returns
AfterEntry(i, events) == IF i < Len(events) THEN "begin" ELSE "returned"

\* catch (error): results.push({ original_event: event.s3_event, ... }) reads
\* a property of the entry, which throws again when the entry is null
PushedInCatch(event) == ~event.isNull

\* the handler is invoked
EnrichStart ==
    /\ enPc = "idle"
    /\ enPc' = (IF enEvents = <<>> THEN "returned" ELSE "begin")
    /\ UNCHANGED <<enEvents, enI, enResults, configCache, enSamples>>

\* the entry can be settled before any await
SettledAtOnce(event) ==
    \/ event.isNull
    \/ event.s3_event.records # "ok"
    \/ event.s3_event.key.malformed
    \/ IsJunkFile(event.s3_event.key)
    \/ event.s3_event.key.folder = ""

\* the body of the try block threw for the entry
ThrowsInTry(event) ==
    \/ event.isNull
    \/ event.s3_event.records = "bad"
    \/ (event.s3_event.records = "ok" /\ event.s3_event.key.malformed)

\* an entry without records, a junk file or a key outside any folder is
\* pushed as unregistered; an entry whose handling throws is pushed by the
\* catch block, unless the catch block throws too and the handler rejects
EnrichAtOnce ==
    /\ enPc = "begin"
    /\ SettledAtOnce(enEvents[enI])
    /\ IF ThrowsInTry(enEvents[enI]) /\ ~PushedInCatch(enEvents[enI])
       THEN /\ enPc' = "rejected"
            /\ UNCHANGED <<enI, enResults>>
       ELSE /\ enResults' = Append(enResults,
                                   EnrichedOf(enEvents[enI].s3_event, Unregistered))
            /\ enPc' = AfterEntry(enI, enEvents)
            /\ enI' = enI + 1
    /\ UNCHANGED <<enEvents, configCache, enSamples>>

\* the entry reaches await getConfigForFolder(folder)
EnrichToConfig ==
    /\ enPc = "begin"
    /\ ~SettledAtOnce(enEvents[enI])
    /\ enPc' = "config"
    /\ UNCHANGED <<enEvents, enI, enResults, configCache, enSamples>>

\* getConfigForFolder gives a config, from the cache or the table: an
\* extension that is not allowed is pushed as unregistered, any other entry
\* goes on to the validation
EnrichConfigFound ==
    /\ enPc = "config"
    /\ LET key == enEvents[enI].s3_event.key IN
       /\ key.folder \in configCache \cup ConfigFolders
       /\ configCache' = configCache \cup {key.folder}
       /\ IF IsExtensionAllowed(key, ConfigOf(key.folder).allowed_extensions)
          THEN /\ enPc' = "validate"
               /\ UNCHANGED <<enI, enResults>>
          ELSE /\ enResults' = Append(enResults,
                                      EnrichedOf(enEvents[enI].s3_event, Unregistered))
               /\ enPc' = AfterEntry(enI, enEvents)
               /\ enI' = enI + 1
    /\ UNCHANGED <<enEvents, enSamples>>

\* getConfigForFolder gives null: the table has no record for the folder, or
\* the GetCommand failed (the error is caught and logged)
EnrichConfigMissing ==
    /\ enPc = "config"
    /\ enEvents[enI].s3_event.key.folder \notin configCache
    /\ enResults' = Append(enResults, EnrichedOf(enEvents[enI].s3_event, Unregistered))
    /\ enPc' = AfterEntry(enI, enEvents)
    /\ enI' = enI + 1
    /\ UNCHANGED <<enEvents, configCache, enSamples>>

\* validateFileStructure resolves, and the handler pushes the result: valid
\* (also when the validation itself failed: fail open), or invalid with the
\* error
EnrichValidated ==
    /\ enPc = "validate"
    /\ LET key == enEvents[enI].s3_event.key
           config == ConfigOf(key.folder)
       IN  \E sample \in (IF ReadsSample(key, config.required_columns)
                           THEN Samples ELSE {"none"}) :
             LET v == ValidateFileStructure(key, config.required_columns, sample) IN
             /\ enSamples' = [i \in DOMAIN enSamples \cup {enI} |->
                                 IF i = enI THEN sample ELSE enSamples[i]]
             /\ enResults' = Append(enResults,
                  EnrichedOf(enEvents[enI].s3_event,
                      IF v.valid
                      THEN [registered |-> TRUE, dataset_id |-> config.dataset_id,
                            schema_version |-> config.schema_version,
                            compute_target |-> config.compute_target,
                            validation_status |-> "valid", validation_error |-> NoStr]
                      ELSE [Unregistered EXCEPT !.validation_status = "invalid",
                                                !.validation_error = v.error]))
    /\ enPc' = AfterEntry(enI, enEvents)
    /\ enI' = enI + 1
    /\ UNCHANGED <<enEvents, configCache>>

\* the records of an event after Records[0]: the event e10 carries a second
\* record, of a junk file; every other event has one record
LaterRecords(s3_event) ==
    IF s3_event.tag = "e10" THEN <<KeyOf("sales", ".tmp", FALSE)>> ELSE <<>>

RecordsOf(s3_event) ==
    IF s3_event.records = "ok" THEN <<s3_event.key>> \o LaterRecords(s3_event) ELSE <<>>

\* the key of a record as the notification spells it
KeyName(key) == key.folder \o "/f" \o key.ext

\* the entry of the output for an event as the Pipe delivers it to the queue:
\* original_event is the s3_event with all its Records, enrichment_data the
\* decision of the handler
EnvelopeOf(s3_event, enrichment_data) ==
    MessageOf("pipe", "hp", TRUE,
        BodyOf("enriched",
               [registered |-> enrichment_data.registered,
                dataset_id |-> enrichment_data.dataset_id,
                schema_version |-> enrichment_data.schema_version,
                compute_target |-> enrichment_data.compute_target],
               [j \in 1..Len(RecordsOf(s3_event)) |->
                   ObjectOf("in", KeyName(RecordsOf(s3_event)[j]), 5 * BytesPerMB, "e1")]))

-----------------------------------------------------------------------------
(* The S3 polling sensor (s3-sensor: isAlreadyProcessed, pollS3Sensor) *)

\* the most records the state store holds for one file when the poll starts
MaxRecords == 2

PollBucket == "in"
PollKeys == {"a.csv", "b.csv"}

\* what s3.listObjects returns for a key
ListedObject(key) == [key |-> key, size |-> 60 * BytesPerMB, etag |-> "e-" \o key]

\* the listings: the keys of the bucket, each at most once, in any order
Listings ==
    { s \in UNION { [1..n -> PollKeys] : n \in 0..Cardinality(PollKeys) } :
        \A i, j \in 1..Len(s) : i # j => s[i] # s[j] }

\* the record of a file created at time t and since taken to a status
RecordAt(key, t, status) ==
    UpdatedItem(NewIngestState(PollBucket, key, 60 * BytesPerMB, "run1", "small", t),
                status, <<>>, t)

\* the tables the poll may find: for every key the records of up to
\* MaxRecords earlier runs, created at the times 1, 2, ..., in any statuses
Histories == UNION { [1..n -> IngestStatus] : n \in 0..MaxRecords }

TableOf(h) ==
    [k \in { x \in { PkOf(PollBucket, key) : key \in PollKeys } \X (1..MaxRecords) :
               \E key \in PollKeys : x[1] = PkOf(PollBucket, key) /\ x[2] <= Len(h[key]) }
        |-> LET key == CHOOSE x \in PollKeys : PkOf(PollBucket, x) = k[1]
            IN  RecordAt(key, SkOf(k[2]), h[key][k[2]])]

PollIdle ==
    /\ psObjects = <<>> /\ psPc = "idle" /\ psI = 1 /\ psRequests = <<>>
    /\ psQueries = <<>>

\* a skip list without PENDING
SkippedStatusesWithoutPending == {"COMPLETED", "PROCESSING", "VALIDATING"}

\* ["COMPLETED", "PROCESSING", "VALIDATING", "PENDING"]
SkippedStatuses == {"COMPLETED", "PROCESSING", "VALIDATING", "PENDING"}

\* isAlreadyProcessed: the query gives the record of the greatest sort key
\* (ScanIndexForward: false, Limit: 1); false when there is none
IsAlreadyProcessed(t, bucket, key) ==
    IF ~HasLatest(t, PkOf(bucket, key)) THEN FALSE
    ELSE LatestOf(t, PkOf(bucket, key)).status \in SkippedStatuses

PollRequestOf(bucket, obj) ==
    [runKey |-> RunKeyOf(bucket, obj.key, obj.etag),
     config |-> [s3Bucket |-> bucket, s3Key |-> obj.key,
                 taskSize |-> S3ResourceTaskSize(obj.size)],
     tags |-> [s3_bucket |-> bucket, s3_key |-> obj.key,
               file_size_mb |-> FileSizeMbHundredths(obj.size),
               task_size |-> S3ResourceTaskSize(obj.size)]]

\* await s3.listObjects(bucketName) resolves
PollList ==
    /\ psPc = "idle"
    /\ psPc' = (IF psObjects = <<>> THEN "returned" ELSE "query")
    /\ UNCHANGED <<psObjects, psI, psRequests, psQueries>>

\* s3.listObjects rejects, and pollS3Sensor with it
PollListThrows ==
    /\ psPc = "idle"
    /\ psPc' = "rejected"
    /\ UNCHANGED <<psObjects, psI, psRequests, psQueries>>

AfterObject(i, objects) == IF i < Len(objects) THEN "query" ELSE "returned"

\* the query of isAlreadyProcessed resolves: a file already processed is
\* skipped, any other gets a run request
PollQueryOk ==
    /\ psPc = "query"
    /\ psRequests' = (IF IsAlreadyProcessed(table, PollBucket, psObjects[psI].key)
                      THEN psRequests
                      ELSE Append(psRequests, PollRequestOf(PollBucket, psObjects[psI])))
    /\ psQueries' = Append(psQueries, TRUE)
    /\ psPc' = AfterObject(psI, psObjects)
    /\ psI' = psI + 1
    /\ UNCHANGED psObjects

\* the query rejects: the error is logged and the object gets no request
PollQueryThrows ==
    /\ psPc = "query"
    /\ psQueries' = Append(psQueries, FALSE)
    /\ psPc' = AfterObject(psI, psObjects)
    /\ psI' = psI + 1
    /\ UNCHANGED <<psObjects, psRequests>>

-----------------------------------------------------------------------------
(* Poll cycles and worker runs: every cycle of the polling sensor hands its *)
(* run requests to workers, and each worker runs FileProcessor.process on   *)
(* the file of its request.                                                 *)

\* the poll cycles started, and the most runs handed to workers before the
\* last cycle starts
MaxRuns == 2

WorkIdle == wkRuns = <<>>

\* the run a request starts: the worker has not yet created its record
RunOf(request) ==
    [runKey |-> request.runKey, key |-> request.config.s3Key, pc |-> "queued", sk |-> NoNum]

RECURSIVE RunsOf(_)
RunsOf(requests) ==
    IF requests = <<>> THEN <<>>
    ELSE <<RunOf(Head(requests))>> \o RunsOf(Tail(requests))

\* the cycle has returned its requests; they become runs, and the sensor is
\* invoked again for the next cycle
PollHandOff ==
    /\ psPc = "returned"
    /\ Len(wkRuns) < MaxRuns
    /\ wkRuns' = wkRuns \o RunsOf(psRequests)
    /\ psPc' = "idle" /\ psI' = 1 /\ psRequests' = <<>> /\ psQueries' = <<>>
    /\ UNCHANGED <<psObjects, storeVars>>

WithRun(i, pc, sk) == [wkRuns EXCEPT ![i].pc = pc, ![i].sk = sk]

\* process, step 3: state = await createIngestState(...)
WorkerCreates ==
    \E i \in 1..Len(wkRuns) :
        /\ wkRuns[i].pc = "queued"
        /\ table' = PutItem(table, NewIngestState(PollBucket, wkRuns[i].key,
                                     60 * BytesPerMB, ProcRunId, CurrentSize, now))
        /\ wkRuns' = WithRun(i, "created", SkOf(now))
        /\ UNCHANGED <<now, stRuns, stRepeat, pollVars>>

\* process, step 4: updateStatus(state.pk, state.sk, "PROCESSING")
WorkerProcessing ==
    \E i \in 1..Len(wkRuns) :
        /\ wkRuns[i].pc = "created"
        /\ table' = UpdateStatusOp(table, PkOf(PollBucket, wkRuns[i].key), wkRuns[i].sk,
                                   "PROCESSING", <<>>, now)
        /\ wkRuns' = WithRun(i, "processing", wkRuns[i].sk)
        /\ UNCHANGED <<now, stRuns, stRepeat, pollVars>>

\* process, step 6: markCompleted
WorkerCompletes ==
    \E i \in 1..Len(wkRuns) :
        /\ wkRuns[i].pc = "processing"
        /\ table' = MarkCompletedOp(table, PkOf(PollBucket, wkRuns[i].key), wkRuns[i].sk,
                                    7, SomeMeta, now)
        /\ wkRuns' = WithRun(i, "completed", wkRuns[i].sk)
        /\ UNCHANGED <<now, stRuns, stRepeat, pollVars>>

\* process, catch: a step after the record was created threw; markFailed
WorkerFails ==
    \E i \in 1..Len(wkRuns) :
        /\ wkRuns[i].pc \in {"created", "processing"}
        /\ table' = MarkFailedOp(table, PkOf(PollBucket, wkRuns[i].key), wkRuns[i].sk,
                                 "boom", now)
        /\ wkRuns' = WithRun(i, "failed", wkRuns[i].sk)
        /\ UNCHANGED <<now, stRuns, stRepeat, pollVars>>

\* a listed object is overwritten with new content between two cycles: the
\* next listing gives the key with another etag
Overwrite ==
    /\ psPc = "idle"
    /\ \E i \in 1..Len(psObjects) :
          /\ psObjects[i].etag = ListedObject(psObjects[i].key).etag
          /\ psObjects' = [psObjects EXCEPT ![i].etag = "e2-" \o psObjects[i].key]
    /\ UNCHANGED <<psPc, psI, psRequests, psQueries>>

-----------------------------------------------------------------------------
(* The dataset config lookups of the enrichment handlers: getConfigForFolder *)
(* (worker/src/enrichment-handler.ts) with its configCache keyed by folder,  *)
(* and getDefaultConfig of the single-config handler with its cachedConfig   *)
(* for the one key "__default__". A config is modelled by its version, 0 for *)
(* no config.                                                                *)

\* the lookups of one warm Lambda
MaxLookups == 3

LookupKeys == {"sales", "__default__"}
Versions == {1, 2}

NoConfig == 0

LookupIdle ==
    /\ registry = [f \in LookupKeys |-> NoConfig]
    /\ cachedConfig = [f \in LookupKeys |-> NoConfig]
    /\ lookups = <<>>

\* one call: its key, how it went and what it returned (NoConfig for null)
LookupOf(folder, outcome, result) ==
    [folder |-> folder, outcome |-> outcome, result |-> result]

\* an operator writes, replaces or deletes the config of a key in the registry
RegistryChange ==
    /\ \E f \in LookupKeys, v \in Versions \cup {NoConfig} :
          /\ v # registry[f]
          /\ registry' = [registry EXCEPT ![f] = v]
    /\ UNCHANGED <<cachedConfig, lookups>>

\* if (configCache.has(folder)) return configCache.get(folder)
LookupCached ==
    /\ Len(lookups) < MaxLookups
    /\ \E f \in LookupKeys :
          /\ cachedConfig[f] # NoConfig
          /\ lookups' = Append(lookups, LookupOf(f, "cached", cachedConfig[f]))
    /\ UNCHANGED <<registry, cachedConfig>>

\* a lookup that finds the item and leaves the cache as it was
LookupFoundWithoutSet ==
    /\ Len(lookups) < MaxLookups
    /\ \E f \in LookupKeys :
          /\ cachedConfig[f] = NoConfig /\ registry[f] # NoConfig
          /\ lookups' = Append(lookups, LookupOf(f, "found", registry[f]))
    /\ UNCHANGED <<registry, cachedConfig>>

\* the GetCommand gives an item: configCache.set(folder, config); return config
LookupFound ==
    /\ Len(lookups) < MaxLookups
    /\ \E f \in LookupKeys :
          /\ cachedConfig[f] = NoConfig /\ registry[f] # NoConfig
          /\ cachedConfig' = [cachedConfig EXCEPT ![f] = registry[f]]
          /\ lookups' = Append(lookups, LookupOf(f, "found", registry[f]))
    /\ UNCHANGED registry

\* the GetCommand gives no item: return config || null
LookupMissing ==
    /\ Len(lookups) < MaxLookups
    /\ \E f \in LookupKeys :
          /\ cachedConfig[f] = NoConfig /\ registry[f] = NoConfig
          /\ lookups' = Append(lookups, LookupOf(f, "missing", NoConfig))
    /\ UNCHANGED <<registry, cachedConfig>>

\* docClient.send rejects: the catch logs and returns null
LookupThrows ==
    /\ Len(lookups) < MaxLookups
    /\ \E f \in LookupKeys :
          /\ cachedConfig[f] = NoConfig
          /\ lookups' = Append(lookups, LookupOf(f, "error", NoConfig))
    /\ UNCHANGED <<registry, cachedConfig>>

-----------------------------------------------------------------------------
(* processFileWithPipes (dagster_ts/src/fargate-ops.ts), from the task it   *)
(* started: the wait loop, the final log fetch and the final describe. The  *)
(* ECS task runs on its own: its worker container exits with a code, the    *)
(* task reaches STOPPED, and ECS may cease to describe it.                  *)

\* the iterations of the wait loop that fit in maxWaitMs (900 s, 2 s apart)
MaxWaitPolls == 2

\* what DescribeTasks gives for the task: lastStatus ("RUNNING" for every
\* status before STOPPED, the stopping ones included; "MISSING" when tasks is
\* empty) and the exit code of the worker container (NoNum when it has none)
TaskOf(status, code) == [lastStatus |-> status, exitCode |-> code]

ExitCodes == {0, 1}

TaskIdle ==
    /\ tkPc = "idle" /\ task = TaskOf("RUNNING", NoNum)
    /\ waited = 0 /\ taskRunning = TRUE /\ exitCode = NoNum
    /\ timedOut = FALSE /\ logErrors = FALSE

\* the states the task may pass to: the container exits while the task is
\* not yet STOPPED, the task stops, the task is no longer described
TaskNext(t) ==
    { TaskOf("RUNNING", c) : c \in (IF t.lastStatus = "RUNNING" /\ t.exitCode = NoNum
                                    THEN ExitCodes ELSE {}) }
        \cup (IF t.lastStatus = "RUNNING" THEN {TaskOf("STOPPED", t.exitCode)} ELSE {})
        \cup (IF t.lastStatus # "MISSING" THEN {TaskOf("MISSING", NoNum)} ELSE {})

\* RunTask gave a task: the wait starts
TaskStarted ==
    /\ tkPc = "idle"
    /\ tkPc' = "loop"
    /\ UNCHANGED <<task, waited, taskRunning, exitCode, timedOut, logErrors>>

\* the task goes on while the caller waits
TaskProgress ==
    /\ tkPc \in {"loop", "final"}
    /\ task' \in TaskNext(task)
    /\ UNCHANGED <<tkPc, waited, taskRunning, exitCode, timedOut, logErrors>>

\* one iteration of the while loop: DescribeTasks, the log read (which may
\* throw: caught), and the sleep when the task has not stopped
WaitIteration ==
    /\ tkPc = "loop" /\ taskRunning /\ waited < MaxWaitPolls
    /\ taskRunning' = (task.lastStatus # "STOPPED")
    /\ exitCode' = (IF task.lastStatus = "STOPPED" THEN task.exitCode ELSE exitCode)
    /\ \E threw \in BOOLEAN : logErrors' = (logErrors \/ threw)
    /\ waited' = waited + 1
    /\ UNCHANGED <<tkPc, task, timedOut>>

\* DescribeTasks rejects in the loop, and processFileWithPipes with it
WaitDescribeThrows ==
    /\ tkPc = "loop" /\ taskRunning /\ waited < MaxWaitPolls
    /\ tkPc' = "thrown"
    /\ UNCHANGED <<task, waited, taskRunning, exitCode, timedOut, logErrors>>

\* the loop condition fails: the task stopped or maxWaitMs elapsed; then the
\* sleep and the final log fetch, whose error is ignored
WaitEnds ==
    /\ tkPc = "loop" /\ (~taskRunning \/ waited >= MaxWaitPolls)
    /\ timedOut' = (taskRunning /\ task.lastStatus = "RUNNING")
    /\ \E threw \in BOOLEAN : logErrors' = (logErrors \/ threw)
    /\ tkPc' = "final"
    /\ UNCHANGED <<task, waited, taskRunning, exitCode>>

\* the final DescribeTasks: success on exit code 0, an error on any other
\* and when no task is described
FinalDescribe ==
    /\ tkPc = "final"
    /\ exitCode' = (IF task.lastStatus = "MISSING" THEN exitCode ELSE task.exitCode)
    /\ tkPc' = (IF task.lastStatus # "MISSING" /\ task.exitCode = 0
                THEN "returned" ELSE "thrown")
    /\ UNCHANGED <<task, waited, taskRunning, timedOut, logErrors>>

\* the final DescribeTasks rejects
FinalDescribeThrows ==
    /\ tkPc = "final"
    /\ tkPc' = "thrown"
    /\ UNCHANGED <<task, waited, taskRunning, exitCode, timedOut, logErrors>>

-----------------------------------------------------------------------------
(* validateFileStructure on a .json object, from the content of the object: *)
(* what the first 16 KiB of it give to JSON.parse.                          *)

\* Range: "bytes=0-16383"
SampleBytes == 16384

\* a JSON object in S3: its length, what JSON.parse makes of the whole text
\* ("array" of n elements, a single "object", or "lines" when only the lines
\* parse), the length of its first line, whether that line is a JSON text of
\* its own, and whether the first record has the required fields
JsonFileOf(bytes, shape, n, firstLine, firstLineParses, firstOk) ==
    [bytes |-> bytes, shape |-> shape, n |-> n, firstLine |-> firstLine,
     firstLineParses |-> firstLineParses, firstOk |-> firstOk]

SampleSizes == {20, SampleBytes - 1, SampleBytes, SampleBytes + 1, 2 * SampleBytes}

\* arrays and objects written on one line or with the opening bracket on a
\* line of its own, JSON Lines files with a short or a long first line, the
\* empty array and the empty file
JsonSampleFiles ==
    { JsonFileOf(b, s, 2, b, TRUE, ok) :
        b \in SampleSizes, s \in {"array", "object"}, ok \in BOOLEAN }
    \cup { JsonFileOf(b, s, 2, 1, FALSE, ok) :
             b \in SampleSizes, s \in {"array", "object"}, ok \in BOOLEAN }
    \cup { JsonFileOf(b, "lines", 2, 10, TRUE, ok) : b \in SampleSizes, ok \in BOOLEAN }
    \cup { JsonFileOf(2 * SampleBytes, "lines", 2, SampleBytes + 1, TRUE, ok) :
             ok \in BOOLEAN }
    \cup { JsonFileOf(2, "array", 0, 2, TRUE, FALSE),
           JsonFileOf(0, "lines", 0, 0, FALSE, FALSE) }

SampleIdle ==
    /\ smFile = JsonFileOf(0, "lines", 0, 0, FALSE, FALSE)
    /\ smColumns = {} /\ smResult = ValidationOf(FALSE, "none")

\* JSON.parse(content) of the sample returns: the sample is the whole text
\* of an array or of an object
SampleParses(f) == f.shape \in {"array", "object"} /\ f.bytes <= SampleBytes

\* JSON.parse(firstLine) returns: the first line is a JSON text and the
\* sample holds all of it
SampleFirstLineParses(f) == f.firstLineParses /\ f.firstLine <= SampleBytes

\* the JSON branch of validateFileStructure, up to validateJsonFields
JsonSample(f) ==
    IF f.bytes = 0 THEN "empty"
    ELSE IF SampleParses(f)
         THEN (IF f.shape = "array" /\ f.n = 0 THEN "short"
               ELSE IF f.firstOk THEN "match" ELSE "mismatch")
    ELSE IF SampleFirstLineParses(f)
         THEN (IF f.firstOk THEN "match" ELSE "mismatch")
    ELSE "invalidJson"

\* validateFileStructure(bucket, key, schema) for a .json key
ValidateJson ==
    /\ smResult.error = "none"
    /\ smResult' = ValidateFileStructure(KeyOf("sales", ".json", FALSE), smColumns,
                                         JsonSample(smFile))
    /\ UNCHANGED <<smFile, smColumns>>

-----------------------------------------------------------------------------
(* Column validation of the first CSV row (column-validator) *)

MaxColumns == 2

\* the header cells and the required column names of the checked inputs
HeaderNames == {"Date", "amount"}
RequiredNames == {"date", "Amount"}
\* the first-row cells: empty, a date, digits, and a word
CellValues == {"", "2024-01-01", "42", "abc"}
ColumnTypes == {"string", "date", "number"}

ColumnDef(name, type) == [name |-> name, type |-> type]

SeqsUpTo(S, n) == UNION { [1..k -> S] : k \in 0..n }

\* String.prototype.toLowerCase on the names above
ToLowerCase(s) ==
    CASE s = "Date" -> "date"
      [] s = "Amount" -> "amount"
      [] OTHER -> s

ColumnsIdle ==
    /\ cvHeaders = <<>> /\ cvValues = <<>> /\ cvSchema = <<>>
    /\ cvLenient = FALSE /\ cvPc = "idle"
    /\ cvResult = [valid |-> TRUE, errors |-> <<>>]

\* firstRow[headers[i]] = firstRowValues[i] || "" for every header cell, a
\* later cell of the same name replacing an earlier one
FirstRow(headers, values) ==
    [h \in { headers[i] : i \in 1..Len(headers) } |->
        LET last == CHOOSE i \in 1..Len(headers) :
                        /\ headers[i] = h
                        /\ \A j \in 1..Len(headers) : headers[j] = h => j <= i
        IN  IF last <= Len(values) THEN values[last] ELSE ""]

\* Date.parse accepts the ISO date; what it makes of a string of digits is
\* left to the engine (lenient); none of the three patterns matches it
IsValidDate(value, lenient) ==
    /\ value # ""
    /\ \/ value = "2024-01-01"
       \/ value = "42" /\ lenient

IsValidNumber(value) == value # "" /\ value = "42"

ValidateType(value, type, lenient) ==
    CASE type = "date" -> IsValidDate(value, lenient)
      [] type = "number" -> IsValidNumber(value)
      [] OTHER -> TRUE

\* headers.map((h) => h.toLowerCase().trim()) with the case kept
NormalizedHeadersKeepingCase(headers) == headers

\* headers.map((h) => h.toLowerCase().trim()): the cells come trimmed from
\* parseCsvLine
NormalizedHeaders(headers) == [i \in 1..Len(headers) |-> ToLowerCase(headers[i])]

\* Array.prototype.indexOf: the first position of x, 0 when there is none
IndexOf(s, x) ==
    IF \E i \in 1..Len(s) : s[i] = x
    THEN CHOOSE i \in 1..Len(s) : s[i] = x /\ \A j \in 1..(i - 1) : s[j] # x
    ELSE 0

MissingError(col) == [column |-> col.name, kind |-> "missing"]
TypeError(col) == [column |-> col.name, kind |-> "type"]

\* the errors pushed for one required column
ColumnErrors(col, headers, firstRow, lenient) ==
    LET headerIndex == IndexOf(NormalizedHeaders(headers), ToLowerCase(col.name))
    IN  IF headerIndex = 0 THEN <<MissingError(col)>>
        ELSE LET value == firstRow[headers[headerIndex]]
             IN  IF col.type # "string" /\ value # ""
                    /\ ~ValidateType(value, col.type, lenient)
                 THEN <<TypeError(col)>>
                 ELSE <<>>

RECURSIVE ErrorsOf(_, _, _, _)
ErrorsOf(columns, headers, firstRow, lenient) ==
    IF columns = <<>> THEN <<>>
    ELSE ColumnErrors(Head(columns), headers, firstRow, lenient)
         \o ErrorsOf(Tail(columns), headers, firstRow, lenient)

\* validateCsvColumns(headers, firstRow, schema), called by
\* validateFileStructure on the first two lines of the sample
ValidateCsvColumns ==
    /\ cvPc = "call"
    /\ LET errors == ErrorsOf(cvSchema, cvHeaders, FirstRow(cvHeaders, cvValues), cvLenient)
       IN  cvResult' = [valid |-> (Len(errors) = 0), errors |-> errors]
    /\ cvPc' = "returned"
    /\ UNCHANGED <<cvHeaders, cvValues, cvSchema, cvLenient>>

-----------------------------------------------------------------------------
(* S3ChunkedReader.streamLines *)

\* the longest content, in characters
MaxChars == 3

\* the characters of a content: a letter, a space, a newline, and a letter of
\* two bytes in UTF-8 (e-acute, C3 A9); "?" is U+FFFD, which only a decoding
\* produces
Characters == {"a", "sp", "nl", "e'"}

\* the bytes of a text in UTF-8
RECURSIVE Utf8(_)
Utf8(text) ==
    IF text = <<>> THEN <<>>
    ELSE (IF Head(text) = "e'" THEN <<"C3", "A9">> ELSE <<Head(text)>>) \o Utf8(Tail(text))

\* chunk.toString(): the bytes of one chunk decoded on their own; a lead byte
\* without its continuation byte and a continuation byte without its lead
\* byte each give U+FFFD
RECURSIVE ChunkToString(_)
ChunkToString(bytes) ==
    IF bytes = <<>> THEN <<>>
    ELSE IF Head(bytes) = "C3"
         THEN (IF Len(bytes) >= 2 /\ bytes[2] = "A9"
               THEN <<"e'">> \o ChunkToString(Tail(Tail(bytes)))
               ELSE <<"?">> \o ChunkToString(Tail(bytes)))
    ELSE IF Head(bytes) = "A9" THEN <<"?">> \o ChunkToString(Tail(bytes))
    ELSE <<Head(bytes)>> \o ChunkToString(Tail(bytes))

\* the transport chunks: the bytes cut after the positions of cuts
ChunkStarts(cuts) == {0} \cup cuts

NumChunks(bytes, cuts) == IF bytes = <<>> THEN 0 ELSE Cardinality(ChunkStarts(cuts))

ChunkStart(cuts, k) ==
    CHOOSE p \in ChunkStarts(cuts) :
        Cardinality({ q \in ChunkStarts(cuts) : q < p }) = k - 1

ChunkOfStream(bytes, cuts, k) ==
    SubSeq(bytes, ChunkStart(cuts, k) + 1,
           IF k = NumChunks(bytes, cuts) THEN Len(bytes) ELSE ChunkStart(cuts, k + 1))

\* String.prototype.split("\n"): the pieces between the newlines, one more
\* than there are newlines
RECURSIVE SplitAtNewlines(_)
SplitAtNewlines(text) ==
    IF text = <<>> THEN << <<>> >>
    ELSE LET rest == SplitAtNewlines(Tail(text))
         IN  IF Head(text) = "nl" THEN << <<>> >> \o rest
             ELSE << <<Head(text)>> \o Head(rest) >> \o Tail(rest)

\* line.trim() is the empty string
IsBlank(line) == \A i \in 1..Len(line) : line[i] = "sp"

\* for (const line of lines) { lineNumber++; if (line.trim()) yield ... }
YieldedFrom(lines, lineNumber) ==
    LET numbered == [i \in 1..Len(lines) |->
                        [line |-> lines[i], lineNumber |-> lineNumber + i]]
        NotBlank(r) == ~IsBlank(r.line)
    IN  SelectSeq(numbered, NotBlank)

LinesIdle ==
    /\ lnContent = <<>> /\ lnCuts = {} /\ lnPc = "idle" /\ lnI = 1
    /\ lnBuffer = <<>> /\ lnNumber = 0 /\ lnYielded = <<>>

\* one turn of for await (const chunk of stream)
StreamChunk ==
    /\ lnPc = "read"
    /\ lnI <= NumChunks(Utf8(lnContent), lnCuts)
    /\ LET lines == SplitAtNewlines(
                        lnBuffer \o ChunkToString(ChunkOfStream(Utf8(lnContent), lnCuts, lnI)))
           whole == SubSeq(lines, 1, Len(lines) - 1)
       IN  /\ lnBuffer' = lines[Len(lines)]
           /\ lnYielded' = lnYielded \o YieldedFrom(whole, lnNumber)
           /\ lnNumber' = lnNumber + Len(whole)
    /\ lnI' = lnI + 1
    /\ UNCHANGED <<lnContent, lnCuts, lnPc>>

\* the stream has ended: the rest of the buffer is the last line
StreamEnd ==
    /\ lnPc = "read"
    /\ lnI > NumChunks(Utf8(lnContent), lnCuts)
    /\ lnYielded' = lnYielded \o YieldedFrom(IF IsBlank(lnBuffer) THEN <<>> ELSE <<lnBuffer>>,
                                             lnNumber)
    /\ lnNumber' = (IF IsBlank(lnBuffer) THEN lnNumber ELSE lnNumber + 1)
    /\ lnPc' = "done"
    /\ UNCHANGED <<lnContent, lnCuts, lnI, lnBuffer>>

FnIdle == ColumnsIdle /\ LinesIdle

OpsIdle == LookupIdle /\ TaskIdle /\ SampleIdle /\ FnIdle

-----------------------------------------------------------------------------
(* Specifications *)

vars == <<sizeVars, chunkVars, storeVars, procVars, pushVars, enrichVars, pollVars, workVars, opsVars>>

InitSize ==
    /\ sizeIn \in SizeDomain
    /\ routerTier = "" /\ workerTier = ""
    /\ ChunkIdle /\ StoreIdle /\ ProcIdle /\ PushIdle /\ EnrichIdle /\ PollIdle /\ WorkIdle /\ OpsIdle

notSize == <<chunkVars, storeVars, procVars, pushVars, enrichVars, pollVars, workVars, opsVars>>

NextSize ==
    \/ (ClassifyRouter /\ UNCHANGED notSize)
    \/ (ClassifyWorker /\ UNCHANGED notSize)

SpecSize == InitSize /\ [][NextSize]_vars

InitChunks ==
    /\ ckFile \in { [size |-> s, chunkSizeMB |-> c] :
                      s \in ChunkFileDomain, c \in 1..MaxChunkMB }
    /\ ckPc = "idle" /\ ckI = 0 /\ ckCalls = <<>> /\ ckBytes = 0 /\ ckEvents = <<>>
    /\ SizeIdle /\ StoreIdle /\ ProcIdle /\ PushIdle /\ EnrichIdle /\ PollIdle /\ WorkIdle /\ OpsIdle

notChunks == <<sizeVars, storeVars, procVars, pushVars, enrichVars, pollVars, workVars, opsVars>>

NextChunks ==
    \/ (ProcessInChunksStart /\ UNCHANGED notChunks)
    \/ (ChunkFetched /\ UNCHANGED notChunks)
    \/ (ChunkFetchFails /\ UNCHANGED notChunks)
    \/ (ProcessorReturns /\ UNCHANGED notChunks)
    \/ (ProcessorThrows /\ UNCHANGED notChunks)
    \/ (ChunkReturn /\ UNCHANGED notChunks)

SpecChunks == InitChunks /\ [][NextChunks]_vars

InitState == SizeIdle /\ ChunkIdle /\ StoreIdle /\ ProcIdle /\ PushIdle /\ EnrichIdle /\ PollIdle /\ WorkIdle /\ OpsIdle

notStore == <<sizeVars, chunkVars, procVars, pushVars, enrichVars, pollVars, workVars, opsVars>>

NextState ==
    \/ (Tick /\ UNCHANGED notStore)
    \/ (CreateIngestState /\ UNCHANGED notStore)
    \/ (UpdateStatus /\ UNCHANGED notStore)
    \/ (UpdateProgress /\ UNCHANGED notStore)
    \/ (MarkCompleted /\ UNCHANGED notStore)
    \/ (MarkFailed /\ UNCHANGED notStore)

SpecState == InitState /\ [][NextState]_vars

\* one call of process on a file, with a reader of the configured chunk size
InitProc ==
    /\ prFile \in CsvFiles \cup JsonFiles \cup BinaryFiles
    /\ ckFile \in { [size |-> prFile.size, chunkSizeMB |-> c] :
                      c \in IF Strategy(prFile) = "binary" THEN 1..MaxChunkMB ELSE {1} }
    /\ ckPc = "idle" /\ ckI = 0 /\ ckCalls = <<>> /\ ckBytes = 0 /\ ckEvents = <<>>
    /\ prPc = "idle" /\ prState = NoState /\ prStart = 0
    /\ prRowCount = 0 /\ prBytes = 0 /\ prBatch = 0 /\ prLeft = 0
    /\ prIsHeader = TRUE /\ prErr = NoStr /\ prThrown = <<>> /\ prWrites = {}
    /\ prFlushed = <<>>
    /\ prReports = <<>> /\ prResult = NoResult
    /\ SizeIdle /\ StoreIdle /\ PushIdle /\ EnrichIdle /\ PollIdle /\ WorkIdle /\ OpsIdle

notProc == <<sizeVars, now, stRuns, stRepeat, pushVars, enrichVars, pollVars, workVars, opsVars>>

NextProc ==
    \/ (Tick /\ UNCHANGED <<sizeVars, chunkVars, procVars, pushVars, enrichVars, pollVars, workVars, opsVars>>)
    \/ (ProcessStart /\ UNCHANGED notProc)
    \/ (StepThrows /\ UNCHANGED notProc)
    \/ (ReportThrows /\ UNCHANGED notProc)
    \/ (GetFileInfoOk /\ UNCHANGED notProc)
    \/ (CreateStateOk /\ UNCHANGED notProc)
    \/ (UpdateStatusOk /\ UNCHANGED notProc)
    \/ (CsvLines /\ UNCHANGED notProc)
    \/ (CsvBatchOk /\ UNCHANGED notProc)
    \/ (CsvCheckpointOk /\ UNCHANGED notProc)
    \/ (CsvTailOk /\ UNCHANGED notProc)
    \/ (JsonReadOk /\ UNCHANGED notProc)
    \/ (JsonArray /\ UNCHANGED notProc)
    \/ (JsonArrayBatchOk /\ UNCHANGED notProc)
    \/ (JsonArrayCheckpointOk /\ UNCHANGED notProc)
    \/ (JsonArrayThrows /\ UNCHANGED notProc)
    \/ (JsonLines /\ UNCHANGED notProc)
    \/ (JsonLinesBatchOk /\ UNCHANGED notProc)
    \/ (JsonLinesCheckpointOk /\ UNCHANGED notProc)
    \/ (JsonLinesThrows /\ UNCHANGED notProc)
    \/ (JsonTailOk /\ UNCHANGED notProc)
    \/ (BinaryStart /\ UNCHANGED notProc)
    \/ (BinaryFetched /\ UNCHANGED notProc)
    \/ (BinaryFetchFails /\ UNCHANGED notProc)
    \/ (BinaryUpdateOk /\ UNCHANGED notProc)
    \/ (BinaryHookOk /\ UNCHANGED notProc)
    \/ (BinaryHandlerThrows /\ UNCHANGED notProc)
    \/ (BinaryReturn /\ UNCHANGED notProc)
    \/ (MarkCompletedOk /\ UNCHANGED notProc)
    \/ (ReturnSuccess /\ UNCHANGED notProc)
    \/ (MarkFailedOk /\ UNCHANGED notProc)
    \/ (MarkFailedThrows /\ UNCHANGED notProc)
    \/ (ReturnFailure /\ UNCHANGED notProc)

SpecProc == InitProc /\ [][NextProc]_vars

\* the orchestrator process: messages arrive, the loop polls and dispatches
InitOrch == SizeIdle /\ ChunkIdle /\ StoreIdle /\ ProcIdle /\ PushIdle /\ EnrichIdle /\ PollIdle /\ WorkIdle /\ OpsIdle

notPush == <<sizeVars, chunkVars, storeVars, procVars, enrichVars, pollVars, workVars, opsVars>>

NextOrch ==
    \/ (SendMessage /\ UNCHANGED notPush)
    \/ (LoopStart /\ UNCHANGED notPush)
    \/ (LoopCheck /\ UNCHANGED notPush)
    \/ (LoopPoll /\ UNCHANGED notPush)
    \/ (LoopPollThrows /\ UNCHANGED notPush)
    \/ (OnRunRequest /\ UNCHANGED notPush)
    \/ (DispatchOk /\ UNCHANGED notPush)
    \/ (DispatchThrows /\ UNCHANGED notPush)
    \/ (LoopWait /\ UNCHANGED notPush)
    \/ (LoopWoken /\ UNCHANGED notPush)
    \/ (Abort /\ UNCHANGED notPush)

SpecOrch == InitOrch /\ [][NextOrch]_vars

\* the sensor that runs sensor-cli in SQS mode at every tick
\* runSensorLoop with any callback, under the scheduling of the runtime: an
\* awaited call settles and the timer of the wait fires
LoopStep ==
    \/ LoopStart \/ LoopCheck \/ LoopPoll \/ LoopPollThrows \/ OnRunRequest
    \/ OnRunRequestThrows \/ DispatchOk \/ DispatchThrows \/ LoopWait
    \/ LoopWoken

NextLoop ==
    \/ (SendMessage /\ UNCHANGED notPush)
    \/ (LoopStart /\ UNCHANGED notPush)
    \/ (LoopCheck /\ UNCHANGED notPush)
    \/ (LoopPoll /\ UNCHANGED notPush)
    \/ (LoopPollThrows /\ UNCHANGED notPush)
    \/ (OnRunRequest /\ UNCHANGED notPush)
    \/ (OnRunRequestThrows /\ UNCHANGED notPush)
    \/ (DispatchOk /\ UNCHANGED notPush)
    \/ (DispatchThrows /\ UNCHANGED notPush)
    \/ (LoopWait /\ UNCHANGED notPush)
    \/ (LoopWoken /\ UNCHANGED notPush)
    \/ (Abort /\ UNCHANGED notPush)

SpecLoop == InitOrch /\ [][NextLoop]_vars /\ WF_vars(LoopStep /\ UNCHANGED notPush)

InitCli == SizeIdle /\ ChunkIdle /\ StoreIdle /\ ProcIdle /\ PushIdle /\ EnrichIdle /\ PollIdle /\ WorkIdle /\ OpsIdle

NextCli ==
    \/ (SendMessage /\ UNCHANGED notPush)
    \/ (CliPoll /\ UNCHANGED notPush)
    \/ (CliPollThrows /\ UNCHANGED notPush)
    \/ (CliAgain /\ UNCHANGED notPush)
    \/ (CallerHandsOff /\ UNCHANGED notPush)
    \/ (CallerFails /\ UNCHANGED notPush)
    \/ (CallerDeletes /\ UNCHANGED notPush)

SpecCli == InitCli /\ [][NextCli]_vars

\* pollSensor on messages of every shape
NextSensor ==
    \/ (SensorSend /\ UNCHANGED notPush)
    \/ (CliPoll /\ UNCHANGED notPush)
    \/ (CliPollThrows /\ UNCHANGED notPush)
    \/ (CliAgain /\ UNCHANGED notPush)
    \/ (CallerFails /\ UNCHANGED notPush)

SpecSensor == InitCli /\ [][NextSensor]_vars

\* the config lookups of a warm Lambda, from its cold start, over a registry
\* that operators change
InitLookup ==
    /\ registry \in [LookupKeys -> Versions \cup {NoConfig}]
    /\ cachedConfig = [f \in LookupKeys |-> NoConfig]
    /\ lookups = <<>>
    /\ TaskIdle /\ SampleIdle /\ FnIdle
    /\ SizeIdle /\ ChunkIdle /\ StoreIdle /\ ProcIdle /\ PushIdle /\ EnrichIdle /\ PollIdle /\ WorkIdle

notLookup == <<sizeVars, chunkVars, storeVars, procVars, pushVars, enrichVars, pollVars, workVars, taskVars, sampleVars, fnVars>>

NextLookup ==
    \/ (RegistryChange /\ UNCHANGED notLookup)
    \/ (LookupCached /\ UNCHANGED notLookup)
    \/ (LookupFound /\ UNCHANGED notLookup)
    \/ (LookupMissing /\ UNCHANGED notLookup)
    \/ (LookupThrows /\ UNCHANGED notLookup)

SpecLookup == InitLookup /\ [][NextLookup]_vars

\* one call of processFileWithPipes, from the task it started
InitTask ==
    /\ TaskIdle /\ LookupIdle /\ SampleIdle /\ FnIdle
    /\ SizeIdle /\ ChunkIdle /\ StoreIdle /\ ProcIdle /\ PushIdle /\ EnrichIdle /\ PollIdle /\ WorkIdle

notTask == <<sizeVars, chunkVars, storeVars, procVars, pushVars, enrichVars, pollVars, workVars, lookupVars, sampleVars, fnVars>>

NextTask ==
    \/ (TaskStarted /\ UNCHANGED notTask)
    \/ (TaskProgress /\ UNCHANGED notTask)
    \/ (WaitIteration /\ UNCHANGED notTask)
    \/ (WaitDescribeThrows /\ UNCHANGED notTask)
    \/ (WaitEnds /\ UNCHANGED notTask)
    \/ (FinalDescribe /\ UNCHANGED notTask)
    \/ (FinalDescribeThrows /\ UNCHANGED notTask)

SpecTask == InitTask /\ [][NextTask]_vars

\* validateFileStructure on .json objects of every shape and length
InitSample ==
    /\ smFile \in JsonSampleFiles
    /\ smColumns \in {{}, {"id"}}
    /\ smResult = ValidationOf(FALSE, "none")
    /\ LookupIdle /\ TaskIdle /\ FnIdle
    /\ SizeIdle /\ ChunkIdle /\ StoreIdle /\ ProcIdle /\ PushIdle /\ EnrichIdle /\ PollIdle /\ WorkIdle

notSample == <<sizeVars, chunkVars, storeVars, procVars, pushVars, enrichVars, pollVars, workVars, lookupVars, taskVars, fnVars>>

NextSample == ValidateJson /\ UNCHANGED notSample

SpecSample == InitSample /\ [][NextSample]_vars

\* validateCsvColumns on every header, first row and schema of up to
\* MaxColumns cells, a schema naming each of its columns once
InitColumns ==
    /\ cvHeaders \in SeqsUpTo(HeaderNames, MaxColumns)
    /\ cvValues \in SeqsUpTo(CellValues, MaxColumns)
    /\ Len(cvValues) <= Len(cvHeaders)
    /\ cvSchema \in SeqsUpTo({ ColumnDef(n, t) : n \in RequiredNames, t \in ColumnTypes },
                             MaxColumns)
    /\ \A i, j \in 1..Len(cvSchema) : cvSchema[i].name = cvSchema[j].name => i = j
    /\ cvLenient \in BOOLEAN
    /\ cvPc = "call"
    /\ cvResult = [valid |-> TRUE, errors |-> <<>>]
    /\ LinesIdle /\ LookupIdle /\ TaskIdle /\ SampleIdle
    /\ SizeIdle /\ ChunkIdle /\ StoreIdle /\ ProcIdle /\ PushIdle /\ EnrichIdle /\ PollIdle /\ WorkIdle

notColumns == <<sizeVars, chunkVars, storeVars, procVars, pushVars, enrichVars, pollVars, workVars, lookupVars, taskVars, sampleVars, lineVars>>

NextColumns == ValidateCsvColumns /\ UNCHANGED notColumns

SpecColumns == InitColumns /\ [][NextColumns]_vars

\* streamLines on every content of up to MaxChars characters, delivered in
\* every chunking of its bytes
InitLines ==
    /\ lnContent \in SeqsUpTo(Characters, MaxChars)
    /\ lnCuts \in SUBSET (1..(Len(Utf8(lnContent)) - 1))
    /\ lnPc = "read" /\ lnI = 1
    /\ lnBuffer = <<>> /\ lnNumber = 0 /\ lnYielded = <<>>
    /\ ColumnsIdle /\ LookupIdle /\ TaskIdle /\ SampleIdle
    /\ SizeIdle /\ ChunkIdle /\ StoreIdle /\ ProcIdle /\ PushIdle /\ EnrichIdle /\ PollIdle /\ WorkIdle

notLines == <<sizeVars, chunkVars, storeVars, procVars, pushVars, enrichVars, pollVars, workVars, lookupVars, taskVars, sampleVars, colVars>>

NextLines ==
    \/ (StreamChunk /\ UNCHANGED notLines)
    \/ (StreamEnd /\ UNCHANGED notLines)

SpecLines == InitLines /\ [][NextLines]_vars

\* one invocation of the enrichment handler, in a cold or a warm Lambda
InitEnrich ==
    /\ enEvents \in UNION { [1..n -> EnrichEntries] : n \in 0..MaxEvents }
    /\ enPc = "idle" /\ enI = 1 /\ enResults = <<>> /\ enSamples = <<>>
    /\ configCache \in SUBSET ConfigFolders
    /\ SizeIdle /\ ChunkIdle /\ StoreIdle /\ ProcIdle /\ PushIdle /\ PollIdle /\ WorkIdle /\ OpsIdle

notEnrich == <<sizeVars, chunkVars, storeVars, procVars, pushVars, pollVars, workVars, opsVars>>

NextEnrich ==
    \/ (EnrichStart /\ UNCHANGED notEnrich)
    \/ (EnrichAtOnce /\ UNCHANGED notEnrich)
    \/ (EnrichToConfig /\ UNCHANGED notEnrich)
    \/ (EnrichConfigFound /\ UNCHANGED notEnrich)
    \/ (EnrichConfigMissing /\ UNCHANGED notEnrich)
    \/ (EnrichValidated /\ UNCHANGED notEnrich)

SpecEnrich == InitEnrich /\ [][NextEnrich]_vars

\* one cycle of pollS3Sensor over a listing, the state store holding the
\* records of earlier runs
InitPoll ==
    /\ psObjects \in { [i \in 1..Len(l) |-> ListedObject(l[i])] : l \in Listings }
    /\ psPc = "idle" /\ psI = 1 /\ psRequests = <<>> /\ psQueries = <<>>
    /\ table \in { TableOf(h) : h \in [PollKeys -> Histories] }
    /\ now = MaxRecords + 1 /\ stRuns = {} /\ stRepeat = FALSE
    /\ SizeIdle /\ ChunkIdle /\ ProcIdle /\ PushIdle /\ EnrichIdle /\ WorkIdle /\ OpsIdle

notPoll == <<sizeVars, chunkVars, storeVars, procVars, pushVars, enrichVars, workVars, opsVars>>

NextPoll ==
    \/ (PollList /\ UNCHANGED notPoll)
    \/ (PollListThrows /\ UNCHANGED notPoll)
    \/ (PollQueryOk /\ UNCHANGED notPoll)
    \/ (PollQueryThrows /\ UNCHANGED notPoll)

SpecPoll == InitPoll /\ [][NextPoll]_vars

\* poll cycles over a listing, interleaved with the runs of the workers
InitDedup ==
    /\ psObjects \in { [i \in 1..Len(l) |-> ListedObject(l[i])] : l \in Listings }
    /\ psPc = "idle" /\ psI = 1 /\ psRequests = <<>> /\ psQueries = <<>>
    /\ wkRuns = <<>>
    /\ StoreIdle /\ SizeIdle /\ ChunkIdle /\ ProcIdle /\ PushIdle /\ EnrichIdle /\ OpsIdle

notWork == <<sizeVars, chunkVars, procVars, pushVars, enrichVars, opsVars>>

NextDedup ==
    \/ (PollList /\ UNCHANGED notPoll)
    \/ (PollListThrows /\ UNCHANGED notPoll)
    \/ (PollQueryOk /\ UNCHANGED notPoll)
    \/ (PollQueryThrows /\ UNCHANGED notPoll)
    \/ (PollHandOff /\ UNCHANGED notWork)
    \/ (Tick /\ UNCHANGED <<notWork, pollVars, workVars>>)
    \/ (WorkerCreates /\ UNCHANGED notWork)
    \/ (WorkerProcessing /\ UNCHANGED notWork)
    \/ (WorkerCompletes /\ UNCHANGED notWork)
    \/ (WorkerFails /\ UNCHANGED notWork)

SpecDedup == InitDedup /\ [][NextDedup]_vars

\* the same over a bucket of one object, overwritten between the cycles
InitOverwrite ==
    /\ psObjects \in { [i \in 1..Len(l) |-> ListedObject(l[i])] :
                          l \in { x \in Listings : Len(x) = 1 } }
    /\ psPc = "idle" /\ psI = 1 /\ psRequests = <<>> /\ psQueries = <<>>
    /\ wkRuns = <<>>
    /\ StoreIdle /\ SizeIdle /\ ChunkIdle /\ ProcIdle /\ PushIdle /\ EnrichIdle /\ OpsIdle

NextOverwrite ==
    \/ NextDedup
    \/ (Overwrite /\ UNCHANGED notPoll)

SpecOverwrite == InitOverwrite /\ [][NextOverwrite]_vars

-----------------------------------------------------------------------------
(* C4: both classifiers place every size in the same tier, with the tier   *)
(* boundaries at exactly 50 MB, 200 MB and 500 MB (the boundary sizes in   *)
(* the higher tier); the first tier is named "lambda" by the router and    *)
(* "small" by the worker.                                                  *)

TierRank(t) ==
    CASE t \in {"lambda", "small"} -> 1
      [] t = "medium" -> 2
      [] t = "large" -> 3
      [] t = "xlarge" -> 4
      [] OTHER -> 0

TierOfBytes(s) ==
    IF s < 50 * 1024 * 1024 THEN 1
    ELSE IF s < 200 * 1024 * 1024 THEN 2
    ELSE IF s < 500 * 1024 * 1024 THEN 3
    ELSE 4

C4_SameTiers ==
    /\ routerTier # "" => TierRank(routerTier) = TierOfBytes(sizeIn)
    /\ workerTier # "" => TierRank(workerTier) = TierOfBytes(sizeIn)
    /\ (routerTier # "" /\ workerTier # "") => TierRank(routerTier) = TierRank(workerTier)
    /\ routerTier \in {"", "lambda", "medium", "large", "xlarge"}
    /\ workerTier \in {"", "small", "medium", "large", "xlarge"}

\* both classifiers were applied to exactly 50 MB
C4_Witness ==
    /\ sizeIn = 50 * 1024 * 1024
    /\ routerTier = "medium" /\ workerTier = "medium"

-----------------------------------------------------------------------------
(* C5: for a file of S bytes and a chunk size of C > 0 bytes, the chunk    *)
(* handler is called ceil(S/C) times (never for S = 0), with chunkIndex    *)
(* 0, 1, ... in order and byte ranges that start at 0, follow one another   *)
(* without gap or overlap and end at S - 1; every chunk but the last has    *)
(* C bytes and the last has S - C * (ceil(S/C) - 1).                        *)

\* the calls made so far are the first chunks of the partition
C5_PrefixOk ==
    \A j \in 1..Len(ckCalls) :
        LET c == ckCalls[j] IN
        /\ c.chunkIndex = j - 1
        /\ c.startByte = (IF j = 1 THEN 0 ELSE ckCalls[j - 1].endByte + 1)
        /\ c.endByte >= c.startByte
        /\ c.endByte <= ckFile.size - 1
        /\ c.size = c.endByte - c.startByte + 1
        /\ (j < Len(ckCalls) => c.size = ckFile.chunkSizeMB * 1024 * 1024)

C5_ChunkPartition ==
    LET S == ckFile.size
        C == ckFile.chunkSizeMB * 1024 * 1024
        n == Len(ckCalls)
    IN  /\ C5_PrefixOk
        /\ ckPc = "returned" =>
             /\ (n - 1) * C < S /\ S <= n * C
             /\ (S = 0 <=> n = 0)
             /\ n > 0 => /\ ckCalls[n].endByte = S - 1
                         /\ ckCalls[n].size = S - C * (n - 1)
             /\ \A j \in 1..n : ckCalls[j].totalChunks = n
             /\ ckBytes = S

\* a file of 2 MB + 1 byte read in chunks of 1 MB: three calls, the last of one byte
C5_Witness ==
    /\ ckPc = "returned"
    /\ ckFile.size = 2 * BytesPerMB + 1 /\ ckFile.chunkSizeMB = 1
    /\ Len(ckCalls) = 3 /\ ckCalls[3].size = 1

-----------------------------------------------------------------------------
(* C6, as claimed: every record has completedAt set if and only if its     *)
(* status is COMPLETED or FAILED.                                          *)

C6_TerminalHasCompletedAt ==
    \A k \in DOMAIN table :
        IsTerminal(table[k].status) => table[k].completedAt # NoNum

C6_StampedByTerminalWrite ==
    \A k \in DOMAIN table' :
        LET before == IF k \in DOMAIN table THEN table[k].completedAt ELSE NoNum IN
        (table'[k].completedAt # before /\ table'[k].completedAt # NoNum)
            => IsTerminal(table'[k].status)

-----------------------------------------------------------------------------
(* C9, as claimed: a markCompleted call on a record that markCompleted has *)
(* already completed leaves completedAt as the first call stamped it.      *)

C9_SecondCallKeepsCompletedAt ==
    [][ \A k \in DOMAIN table, rc \in RowCounts :
          (/\ MarkedCompleted(table[k])
           /\ table' = MarkCompletedOp(table, k[1], k[2], rc, SomeMeta, now))
          => table'[k].completedAt = table[k].completedAt ]_vars

(* C9, amended: a markCompleted call on a record that markCompleted has     *)
(* already completed leaves the status COMPLETED and completedAt set, and   *)
(* stamps completedAt again with the time of that call, which is not        *)
(* earlier than the first stamp.                                            *)

C9_SecondCallRestamps ==
    [][ \A k \in DOMAIN table, rc \in RowCounts :
          (/\ MarkedCompleted(table[k])
           /\ table' = MarkCompletedOp(table, k[1], k[2], rc, SomeMeta, now))
          => /\ table'[k].status = "COMPLETED"
             /\ table'[k].completedAt = now
             /\ table'[k].completedAt >= table[k].completedAt
             /\ table'[k].completedAt # NoNum ]_vars

\* a second markCompleted was made, later than the creation of its record
C9_Witness ==
    /\ stRepeat
    /\ \E k \in DOMAIN table :
        MarkedCompleted(table[k]) /\ table[k].completedAt > table[k].startedAt

-----------------------------------------------------------------------------
(* C7: a run in which the fetch of a chunk fails, and nothing else, returns *)
(* success = false and leaves its record FAILED with the error message;     *)
(* a run in which a fetch has failed writes COMPLETED at no point, and no   *)
(* record of the file's pk is COMPLETED.                                    *)

C7_FetchFailureEndsFailed ==
    /\ "fetchChunk" \in Thrown =>
          /\ "COMPLETED" \notin prWrites
          /\ \A k \in ItemsOf(table, PkOf(StoreBucket, ProcKey(prFile))) :
                table[k].status # "COMPLETED"
    /\ prThrown = <<"fetchChunk">> =>
          /\ prPc \in {"markFailed", "reportFailure", "returned"}
          /\ prPc = "returned" =>
                /\ table[prState].status = "FAILED"
                /\ table[prState].errorMessage = ErrorOf("fetchChunk")
                /\ table[prState].completedAt # NoNum
                /\ prResult.success = FALSE
                /\ prResult.error = ErrorOf("fetchChunk")

\* the fetch of chunk 2 of 5 failed and the run has returned
C7_Witness ==
    /\ prPc = "returned"
    /\ prThrown = <<"fetchChunk">>
    /\ TotalChunks(ckFile) = 5 /\ ckI = 1 /\ Len(ckCalls) = 1
    /\ table[prState].status = "FAILED"

-----------------------------------------------------------------------------
(* C8, as claimed: a run of process in which a step has thrown and which   *)
(* has returned, returned success = false after a failure report, and its  *)
(* record, if one was created, is FAILED with the error message.           *)

C8_ThrowEndsFailed ==
    (prPc = "returned" /\ prThrown # <<>>) =>
        /\ prResult.success = FALSE
        /\ \E i \in 1..Len(prReports) : prReports[i] = "failure"
        /\ prState # NoState =>
              /\ table[prState].status = "FAILED"
              /\ table[prState].errorMessage # NoStr

-----------------------------------------------------------------------------
(* C1, as claimed: in the lifetime of the orchestrator process, dispatch is *)
(* invoked for at most one run request of a given run key, whatever is      *)
(* redelivered and however the runs end: no two run records, one being      *)
(* pushed per dispatch, carry the same run key.                             *)

C1_OneDispatchPerRunKey ==
    \A i, j \in 1..Len(runs) : runs[i].runKey = runs[j].runKey => i = j

-----------------------------------------------------------------------------
(* C2: pollSensor deletes no message: while its output is with the caller,  *)
(* every message the poll received is in the queue; a message leaves the    *)
(* queue only when the caller deletes it, by a receipt handle of the        *)
(* output, after handing off the run requests derived from it.              *)

C2_ReceivedStillQueued ==
    cliPc \in {"output", "handedOff"} =>
        \A i \in 1..Len(cliReceived) : cliReceived[i] \in queue

C2_RemovedByCallerOnly ==
    \A id \in queue \ queue' :
        /\ cliPc = "handedOff"
        /\ id \in MessagesWithHandles(cliOut.receiptHandles)
        /\ \A i \in 1..Len(RequestsOfMessage(Catalogue(id))) :
              \E j \in 1..Len(cliHanded) :
                  cliHanded[j] = RequestsOfMessage(Catalogue(id))[i]

-----------------------------------------------------------------------------
(* C3, as claimed: for every batch, null entries included, the handler      *)
(* returns normally, and what it returns has the length of the batch and    *)
(* carries, at every position, the s3_event of the entry at that position   *)
(* as original_event.                                                       *)

C3_SameLengthSameOrder ==
    /\ enPc # "rejected"
    /\ enPc = "returned" =>
          /\ Len(enResults) = Len(enEvents)
          /\ \A i \in 1..Len(enEvents) :
                enResults[i].original_event = enEvents[i].s3_event.tag

-----------------------------------------------------------------------------
(* C10: in a poll-mode cycle, an object whose state-store query succeeded   *)
(* has a run request if and only if the store holds no record of the file   *)
(* or the record of the greatest sort key has status FAILED; an object      *)
(* whose latest status is COMPLETED, PROCESSING, VALIDATING or PENDING has  *)
(* none, and neither has an object whose query failed.                      *)

C10_Emitted(i) ==
    \E j \in 1..Len(psRequests) :
        psRequests[j].runKey = RunKeyOf(PollBucket, psObjects[i].key, psObjects[i].etag)

C10_LatestStatuses(i) ==
    LET items == { k \in DOMAIN table : table[k].bucket = PollBucket
                                        /\ table[k].key = psObjects[i].key }
    IN  { table[k].status : k \in { x \in items : \A o \in items : o[2] <= x[2] } }

C10_EmitsIffNewOrFailed ==
    \A i \in 1..Len(psQueries) :
        /\ psQueries[i] => (C10_Emitted(i) <=> C10_LatestStatuses(i) \subseteq {"FAILED"})
        /\ ~psQueries[i] => ~C10_Emitted(i)
        /\ C10_LatestStatuses(i) \cap {"COMPLETED", "PROCESSING", "VALIDATING", "PENDING"} # {}
              => ~C10_Emitted(i)

\* the cycle returned a request for a file whose latest record is FAILED after
\* an earlier COMPLETED one, and none for a file whose latest record is PENDING
C10_Witness ==
    /\ psPc = "returned" /\ Len(psQueries) = 2 /\ psQueries[1] /\ psQueries[2]
    /\ Len(psRequests) = 1
    /\ \E i, j \in 1..2 :
          /\ C10_Emitted(i) /\ C10_LatestStatuses(i) = {"FAILED"}
          /\ \E k \in DOMAIN table : table[k].key = psObjects[i].key
                                     /\ table[k].status = "COMPLETED"
          /\ ~C10_Emitted(j) /\ C10_LatestStatuses(j) = {"PENDING"}

-----------------------------------------------------------------------------
(* C11: in poll mode, over poll cycles interleaved with worker runs, once a *)
(* run request for a file has been emitted no later cycle emits one for the *)
(* same file while its run has not ended FAILED: of the runs and pending    *)
(* requests with one run key, at most one has not ended FAILED.             *)

C11_Live ==
    [i \in 1..(Len(wkRuns) + Len(psRequests)) |->
        IF i <= Len(wkRuns) THEN [runKey |-> wkRuns[i].runKey, failed |-> wkRuns[i].pc = "failed"]
        ELSE [runKey |-> psRequests[i - Len(wkRuns)].runKey, failed |-> FALSE]]

C11_OneLiveRunPerRunKey ==
    \A i, j \in DOMAIN C11_Live :
        (i # j /\ C11_Live[i].runKey = C11_Live[j].runKey)
            => (C11_Live[i].failed \/ C11_Live[j].failed)

-----------------------------------------------------------------------------
(* C12: in runSensorLoop an exception thrown during a poll cycle, by        *)
(* pollSensor or by onRunRequest, is logged and does not end the loop: the  *)
(* loop stops only when cancellation was signalled, every cycle comes to    *)
(* the wait, and after the wait of every cycle, failed or not, another      *)
(* cycle is started unless cancellation has been signalled.                 *)

C12_LoopSurvivesErrors ==
    /\ [](orPc = "stopped" => aborted)
    /\ (orPc \in {"poll", "handoff", "dispatching"}) ~> (orPc = "wait")
    /\ (orPc = "wait") ~> (orPc = "poll" \/ aborted)

\* a cycle is under way after two cycles that failed, and nothing was cancelled
C12_Witness == orPc = "poll" /\ orErrors = 2 /\ ~aborted

(* C13: once the cancellation signal is raised, runSensorLoop starts no new *)
(* poll cycle, the cycle in flight goes on request by request (the signal   *)
(* itself moves nothing and drops no request; requests leave the cycle only *)
(* one by one as they are handled, or by the catch of a throwing callback), *)
(* and the loop eventually returns.                                         *)

C13_NoNewCycle == aborted => ~(orPc # "poll" /\ orPc' = "poll")

C13_CycleNotAbandoned ==
    /\ (aborted' /\ ~aborted) => (orPc' = orPc /\ orPending' = orPending)
    /\ (aborted /\ orPending' # orPending) =>
          \/ orPc = "poll"
          \/ orPending' = Tail(orPending) /\ orPc \in {"handoff", "dispatching"}
          \/ orErrors' = orErrors + 1 /\ orPc = "handoff"

C13_CancelStopsLoop ==
    /\ [][C13_NoNewCycle /\ C13_CycleNotAbandoned]_vars
    /\ aborted ~> (orPc = "stopped")
    /\ [](orPc = "stopped" => orPending = <<>>)

\* cancellation was signalled during a cycle: one request is being
\* dispatched and another of the same cycle is still to come
C13_Witness == aborted /\ orPc = "dispatching" /\ Len(orPending) >= 2

-----------------------------------------------------------------------------
(* C14: processInChunks fetches and handles the chunks strictly in index    *)
(* order with at most one fetch or handler in flight: the history is fetch  *)
(* 0, call 0, done 0, fetch 1, ... with every fetch or call settled before  *)
(* the next starts; when the fetch or the handler of chunk i fails the      *)
(* operation rejects by that failure, which is the last event, and no chunk *)
(* of a greater index is fetched or handled.                                *)

\* the fetches and calls started and not yet settled after the first n events
C14_InFlight(n) ==
    Cardinality({ k \in 1..n : ckEvents[k].op \in {"fetch", "call"} })
      - Cardinality({ k \in 1..n : ckEvents[k].op \in {"call", "done", "fetchFailed", "callFailed"} })

C14_InOrder ==
    \A k \in 1..Len(ckEvents) :
        LET e == ckEvents[k] IN
        /\ C14_InFlight(k) \in {0, 1}
        /\ k = 1 => (e.op = "fetch" /\ e.i = 0)
        /\ k > 1 =>
            LET p == ckEvents[k - 1] IN
            \/ p.op = "fetch" /\ e.op \in {"call", "fetchFailed"} /\ e.i = p.i
            \/ p.op = "call"  /\ e.op \in {"done", "callFailed"} /\ e.i = p.i
            \/ p.op = "done"  /\ e.op = "fetch" /\ e.i = p.i + 1

C14_SequentialAndAborting ==
    /\ C14_InOrder
    /\ (\E k \in 1..Len(ckEvents) : ckEvents[k].op \in {"fetchFailed", "callFailed"})
          <=> ckPc = "thrown"
    /\ ckPc = "thrown" =>
          /\ ckEvents[Len(ckEvents)].op \in {"fetchFailed", "callFailed"}
          /\ \A k \in 1..Len(ckEvents) : ckEvents[k].i <= ckEvents[Len(ckEvents)].i
    /\ ckPc = "returned" =>
          \A i \in 0..(TotalChunks(ckFile) - 1) :
              \E k \in 1..Len(ckEvents) : ckEvents[k] = ChunkEvent("done", i)

\* the fetch of the second of three chunks failed after the first was handled
C14_Witness ==
    /\ ckPc = "thrown" /\ TotalChunks(ckFile) = 3
    /\ ckEvents = <<ChunkEvent("fetch", 0), ChunkEvent("call", 0), ChunkEvent("done", 0),
                    ChunkEvent("fetch", 1), ChunkEvent("fetchFailed", 1)>>

-----------------------------------------------------------------------------
(* C15: every createIngestState call for a file adds one new record, with   *)
(* status PENDING, no completedAt, ttl = creation time + 30 days and a sort *)
(* key that no existing record of the file has; no existing record is       *)
(* overwritten or removed, also when two creates for the same file read the *)
(* same clock value.                                                        *)

C15_CreateStep == stRuns' # stRuns

C15_CreateAppends ==
    C15_CreateStep =>
        /\ DOMAIN table \subseteq DOMAIN table'
        /\ Cardinality(DOMAIN table') = Cardinality(DOMAIN table) + 1
        /\ \A k \in DOMAIN table : table'[k] = table[k]
        /\ \A k \in DOMAIN table' \ DOMAIN table :
              /\ table'[k].status = "PENDING"
              /\ table'[k].completedAt = NoNum
              /\ table'[k].ttl = now + 30 * 24 * 60 * 60

C15_AppendOnlyHistory == [][C15_CreateAppends]_vars

-----------------------------------------------------------------------------
(* C16: when the processing of a CSV file completes without error, the      *)
(* result has success = true and rowCount = the number of non-blank lines   *)
(* after the header line (the first non-blank line), and the state record   *)
(* of the run has status COMPLETED, completedAt set and the same rowCount.  *)

C16_CsvRowCount ==
    (prPc = "returned" /\ Strategy(prFile) = "csv" /\ prThrown = <<>>) =>
        /\ prResult.success
        /\ prResult.rowCount = (IF prFile.lines > 0 THEN prFile.lines - 1 ELSE 0)
        /\ <<prState[1], prState[2]>> \in DOMAIN table
        /\ table[<<prState[1], prState[2]>>].status = "COMPLETED"
        /\ table[<<prState[1], prState[2]>>].completedAt # NoNum
        /\ table[<<prState[1], prState[2]>>].rowCount = prResult.rowCount

\* a CSV file of a header and 1001 rows was processed: one full batch and a tail
C16_Witness ==
    /\ prPc = "returned" /\ Strategy(prFile) = "csv" /\ prThrown = <<>>
    /\ prFile.lines = BatchSize + 2
    /\ prResult.success /\ prResult.rowCount = BatchSize + 1

-----------------------------------------------------------------------------
(* C17: a failure of an observability call never changes the outcome of the *)
(* job: a run in which nothing but report calls threw returns success with  *)
(* its record COMPLETED, and a record that was written COMPLETED is never   *)
(* written FAILED because of a report failure.                              *)

C17_ReportFailureHarmless ==
    (Thrown \subseteq {"report"}) =>
        /\ prPc # "rejected"
        /\ ("COMPLETED" \in prWrites => "FAILED" \notin prWrites)
        /\ prPc = "returned" =>
              /\ prResult.success
              /\ table[<<prState[1], prState[2]>>].status = "COMPLETED"

-----------------------------------------------------------------------------
(* C18: if the byte-range fetch or the decoding of the sample throws during *)
(* structure validation, validateFileStructure returns valid, the exception *)
(* reaches neither the handler nor its caller, and the event, whose other   *)
(* gates have passed, is enriched as registered with the values of its      *)
(* config.                                                                  *)

C18_FailOpen ==
    \A i \in DOMAIN enSamples :
        enSamples[i] \in {"fetchThrows", "decodeThrows"} =>
            /\ Len(enResults) >= i
            /\ enResults[i].original_event = enEvents[i].s3_event.tag
            /\ enResults[i].enrichment_data.registered
            /\ enResults[i].enrichment_data.validation_status = "valid"
            /\ enResults[i].enrichment_data.validation_error = NoStr
            /\ enResults[i].enrichment_data.dataset_id
                  = ConfigOf(enEvents[i].s3_event.key.folder).dataset_id

\* the handler returned a batch of two CSV events: the fetch of the first
\* sample was rejected, the decoding of the second threw
C18_Witness ==
    /\ enPc = "returned" /\ Len(enResults) = 2
    /\ DOMAIN enSamples = {1, 2}
    /\ enSamples[1] = "fetchThrows" /\ enSamples[2] = "decodeThrows"
    /\ enResults[1].enrichment_data.registered /\ enResults[2].enrichment_data.registered

-----------------------------------------------------------------------------
(* C19: if the processing of one event of a batch throws, that event alone  *)
(* receives enrichment_data {registered: false}, the handler still returns  *)
(* normally, and every other event of the batch gets the decision it gets   *)
(* on its own: the one its own key, config and validation give.             *)

\* the decisions an event can get in a batch of its own
C19_DecisionsAlone(event) ==
    IF SettledAtOnce(event) THEN {Unregistered}
    ELSE LET key == event.s3_event.key
             config == ConfigOf(key.folder)
         IN  {Unregistered}
             \cup (IF key.folder \in ConfigFolders
                      /\ IsExtensionAllowed(key, config.allowed_extensions)
                   THEN { IF ValidateFileStructure(key, config.required_columns, x).valid
                          THEN [registered |-> TRUE, dataset_id |-> config.dataset_id,
                                schema_version |-> config.schema_version,
                                compute_target |-> config.compute_target,
                                validation_status |-> "valid", validation_error |-> NoStr]
                          ELSE [Unregistered EXCEPT
                                  !.validation_status = "invalid",
                                  !.validation_error =
                                      ValidateFileStructure(key, config.required_columns, x).error]
                          : x \in Samples }
                   ELSE {})

C19_ThrowIsolated ==
    /\ enPc # "rejected"
    /\ \A i \in 1..Len(enResults) :
          /\ enResults[i].original_event = enEvents[i].s3_event.tag
          /\ ThrowsInTry(enEvents[i]) => enResults[i].enrichment_data = Unregistered
          /\ enResults[i].enrichment_data \in C19_DecisionsAlone(enEvents[i])
    /\ enPc = "returned" => Len(enResults) = Len(enEvents)

(* C20: the handler emits registered: true for an event only if its key has *)
(* no junk suffix, a config exists for its folder, its extension is allowed *)
(* by that config and the structure validation returned valid; then         *)
(* dataset_id, schema_version and compute_target are the config's and       *)
(* validation_status is "valid"; in every other case registered is false,   *)
(* and validation_status "invalid" with a validation_error is present       *)
(* exactly when the validation was run and failed.                          *)

C20_Validation(i) ==
    ValidateFileStructure(enEvents[i].s3_event.key,
                          ConfigOf(enEvents[i].s3_event.key.folder).required_columns,
                          enSamples[i])

C20_GatesPassed(i) ==
    LET e == enEvents[i] IN
    /\ ~e.isNull /\ e.s3_event.records = "ok" /\ ~e.s3_event.key.malformed
    /\ e.s3_event.key.ext \notin {".tmp", ".crdownload"}
    /\ e.s3_event.key.folder \in ConfigFolders
    /\ \/ ConfigOf(e.s3_event.key.folder).allowed_extensions = {}
       \/ e.s3_event.key.ext \in ConfigOf(e.s3_event.key.folder).allowed_extensions

C20_RegisteredOnlyWhenValid ==
    \A i \in 1..Len(enResults) :
        LET d == enResults[i].enrichment_data
            config == ConfigOf(enEvents[i].s3_event.key.folder)
        IN  /\ i \in DOMAIN enSamples => C20_GatesPassed(i)
            /\ d.registered <=> (i \in DOMAIN enSamples /\ C20_Validation(i).valid)
            /\ d.registered =>
                  /\ d.dataset_id = config.dataset_id
                  /\ d.schema_version = config.schema_version
                  /\ d.compute_target = config.compute_target
                  /\ d.validation_status = "valid"
            /\ (d.validation_status = "invalid" /\ d.validation_error # NoStr)
                  <=> (i \in DOMAIN enSamples /\ ~C20_Validation(i).valid)
            /\ d.validation_status = "invalid" => ~d.registered
            /\ (~d.registered /\ d.validation_status # "invalid") => d = Unregistered

\* the handler returned a batch of two CSV events of a registered folder:
\* the first sample had the required columns, the second had not
C20_Witness ==
    /\ enPc = "returned" /\ Len(enResults) = 2 /\ DOMAIN enSamples = {1, 2}
    /\ enSamples[1] = "match" /\ enSamples[2] = "mismatch"
    /\ enResults[1].enrichment_data.registered
    /\ enResults[1].enrichment_data.compute_target = "FARGATE"
    /\ ~enResults[2].enrichment_data.registered
    /\ enResults[2].enrichment_data.validation_status = "invalid"

-----------------------------------------------------------------------------
(* C21: pollSensor emits no run request for a record of an enriched         *)
(* envelope whose enrichment_data.registered is false, and exactly one run  *)
(* request, in input order, for every other record that has a bucket and a  *)
(* key.                                                                     *)

\* the records of a message that the claim gives a run request, in input order
C21_Eligible(id) ==
    LET m == Catalogue(id)
        Counts(r) == /\ r.bucket # NoStr /\ r.key # NoStr
                     /\ ~(m.body.kind = "enriched" /\ ~m.body.enrichment.registered)
    IN  IF m.hasBody /\ m.body.kind \in {"raw", "enriched"}
        THEN SelectSeq(m.body.records, Counts)
        ELSE <<>>

RECURSIVE C21_Expected(_)
C21_Expected(ids) ==
    IF ids = <<>> THEN <<>>
    ELSE C21_Eligible(Head(ids)) \o C21_Expected(Tail(ids))

C21_OnePerRegisteredRecord ==
    cliPc = "output" =>
        LET expected == C21_Expected(cliReceived)
            got == cliOut.runRequests
        IN  /\ Len(got) = Len(expected)
            /\ \A i \in 1..Len(expected) :
                  /\ got[i].config.s3Bucket = expected[i].bucket
                  /\ got[i].config.s3Key = expected[i].key
                  /\ got[i].runKey
                       = RunKeyOf(expected[i].bucket, expected[i].key, expected[i].etag)

\* one poll received the unregistered envelope between two events that count
C21_Witness ==
    /\ cliPc = "output"
    /\ cliReceived = <<"m5", "m4", "m2">>
    /\ Len(cliOut.runRequests) = 3


-----------------------------------------------------------------------------
(* C22: the task_size of a run request is "lambda" whenever the record's    *)
(* enrichment compute_target is LAMBDA, whatever the size, and otherwise    *)
(* exactly the size-based tier of the record's size; config.taskSize always *)
(* equals tags.task_size.                                                   *)

\* size and compute target of the records of a message that get a run request
C22_Routed(id) ==
    LET m == Catalogue(id)
        records == C21_Eligible(id)
    IN  [i \in 1..Len(records) |->
            [size |-> IF records[i].size = NoNum THEN 0 ELSE records[i].size,
             forced |-> m.body.kind = "enriched"
                        /\ m.body.enrichment.compute_target = "LAMBDA"]]

RECURSIVE C22_Expected(_)
C22_Expected(ids) ==
    IF ids = <<>> THEN <<>>
    ELSE C22_Routed(Head(ids)) \o C22_Expected(Tail(ids))

C22_TaskSize ==
    cliPc = "output" =>
        LET expected == C22_Expected(cliReceived)
            got == cliOut.runRequests
        IN  /\ Len(got) = Len(expected)
            /\ \A i \in 1..Len(expected) :
                  /\ got[i].tags.task_size
                       = (IF expected[i].forced THEN "lambda"
                          ELSE S3ResourceTaskSize(expected[i].size))
                  /\ got[i].config.taskSize = got[i].tags.task_size

\* a forced file above the lambda tier beside files routed by their size
C22_Witness ==
    /\ cliPc = "output"
    /\ cliReceived = <<"m2", "m6", "m1">>
    /\ cliOut.runRequests[1].tags.task_size = "lambda"
    /\ cliOut.runRequests[2].tags.task_size = "xlarge"
    /\ cliOut.runRequests[3].tags.task_size = "medium"


-----------------------------------------------------------------------------
(* C23: overwriting a key with new content (a different etag) gives a       *)
(* different run key, and the new version is emitted as a new run and not   *)
(* treated as a duplicate, also when the run of the earlier version is      *)
(* COMPLETED. In poll mode: an object listed with a new etag whose query    *)
(* succeeded and whose run key has no run yet gets a run request in the     *)
(* cycle.                                                                   *)

C23_NewRunKey(i) == RunKeyOf(PollBucket, psObjects[i].key, psObjects[i].etag)

C23_NewVersionEmitted ==
    \A i \in 1..Len(psQueries) :
        ( /\ psQueries[i]
          /\ psObjects[i].etag # ListedObject(psObjects[i].key).etag
          /\ C23_NewRunKey(i) # RunKeyOf(PollBucket, psObjects[i].key,
                                         ListedObject(psObjects[i].key).etag)
          /\ \A r \in 1..Len(wkRuns) : wkRuns[r].runKey # C23_NewRunKey(i) )
        => \E j \in 1..Len(psRequests) : psRequests[j].runKey = C23_NewRunKey(i)

\* the skipped new version of a file whose only earlier run is COMPLETED
C23_SkippedAfterCompleted ==
    \E i \in 1..Len(psQueries) :
        /\ psQueries[i]
        /\ psObjects[i].etag # ListedObject(psObjects[i].key).etag
        /\ psRequests = <<>>
        /\ \E r \in 1..Len(wkRuns) : wkRuns[r].key = psObjects[i].key
        /\ \A r \in 1..Len(wkRuns) :
              wkRuns[r].key = psObjects[i].key => wkRuns[r].pc = "completed"


-----------------------------------------------------------------------------
(* C24: a message whose body is missing or is not valid JSON produces no    *)
(* run request and does not stop the cycle: the poll returns, and the run   *)
(* requests it returns are exactly those of the well-formed messages, in    *)
(* message order.                                                           *)

C24_Malformed(id) == ~Catalogue(id).hasBody \/ Catalogue(id).body.kind = "invalid"

RECURSIVE C24_Expected(_)
C24_Expected(ids) ==
    IF ids = <<>> THEN <<>>
    ELSE (IF C24_Malformed(Head(ids)) THEN <<>>
          ELSE RequestsOfMessage(Catalogue(Head(ids))))
         \o C24_Expected(Tail(ids))

C24_MalformedSkipped ==
    /\ [](cliPc = "output" => cliOut.runRequests = C24_Expected(cliReceived))
    /\ [][(cliPc = "idle" /\ cliReceived' # cliReceived) => cliPc' = "output"]_vars

\* an invalid body first and a missing body last, a raw event between them
C24_Witness ==
    /\ cliPc = "output"
    /\ cliReceived = <<"m3", "m5", "m7">>
    /\ Len(cliOut.runRequests) = 2


-----------------------------------------------------------------------------
(* C25: the config lookup reads the registry at most once for a key with a  *)
(* found config: every later lookup of the key returns that same config     *)
(* without reading, even if the registry has changed since. A missing entry *)
(* or a read error returns null without throwing, is not cached, and the    *)
(* key is looked up in the registry again at the next call.                 *)

C25_FoundBefore(i) ==
    { j \in 1..(i - 1) : lookups[j].folder = lookups[i].folder
                         /\ lookups[j].outcome = "found" }

C25_CachedOnceFound ==
    \A i \in 1..Len(lookups) :
        /\ C25_FoundBefore(i) # {}
              => /\ lookups[i].outcome = "cached"
                 /\ \A j \in C25_FoundBefore(i) : lookups[i].result = lookups[j].result
        /\ C25_FoundBefore(i) = {}
              => /\ lookups[i].outcome \in {"found", "missing", "error"}
                 /\ lookups[i].outcome \in {"missing", "error"}
                       => lookups[i].result = NoConfig
        /\ lookups[i].outcome = "found" => lookups[i].result # NoConfig
        /\ cachedConfig[lookups[i].folder] # NoConfig
              => \E j \in 1..Len(lookups) :
                    /\ lookups[j].folder = lookups[i].folder
                    /\ lookups[j].outcome = "found"

\* a key found after a miss and a failed read, then served from the cache
\* although the registry holds another config by then
C25_Witness ==
    /\ Len(lookups) = 3
    /\ lookups[1].outcome \in {"missing", "error"}
    /\ lookups[2] = LookupOf(lookups[1].folder, "found", 1)
    /\ lookups[3] = LookupOf(lookups[1].folder, "cached", 1)
    /\ registry[lookups[1].folder] = 2


-----------------------------------------------------------------------------
(* C26: processFileWithPipes returns success only if the exit code of the   *)
(* worker container read after the wait loop is 0; if the task is still     *)
(* running when the wait bound elapses, or the exit code is non-zero or     *)
(* unknown, or the task cannot be described, the call throws; an error      *)
(* while reading logs never changes this.                                   *)

C26_SuccessOnlyOnZeroInTime ==
    /\ tkPc = "returned" => (exitCode = 0 /\ task.lastStatus # "MISSING")
    /\ timedOut => tkPc # "returned"

\* success returned although the bound elapsed with the task still running
C26_SuccessAfterTimeout ==
    tkPc = "returned" /\ timedOut /\ waited = MaxWaitPolls


-----------------------------------------------------------------------------
(* C27: at no time are two runs processing the same file: for every pk at   *)
(* most one state record is in a non-terminal status (PENDING, VALIDATING   *)
(* or PROCESSING), under any interleaving of poll cycles and worker runs.   *)

C27_OneOpenRecordPerFile ==
    \A k1, k2 \in DOMAIN table :
        ( /\ k1[1] = k2[1]
          /\ ~IsTerminal(table[k1].status)
          /\ ~IsTerminal(table[k2].status) )
        => k1 = k2


-----------------------------------------------------------------------------
(* C28: the statuses written to the state record of one run follow PENDING, *)
(* then PROCESSING (repeated by checkpoints), then exactly one of COMPLETED  *)
(* or FAILED: PROCESSING is never written before the record was created, no *)
(* status is written after a terminal status, and a record never goes from  *)
(* COMPLETED to FAILED or from a terminal status back to PROCESSING.        *)

C28_StatusStep ==
    \A k \in DOMAIN table' :
        IF k \notin DOMAIN table THEN table'[k].status = "PENDING"
        ELSE \/ table'[k] = table[k]
             \/ /\ table[k].status = "PENDING"
                /\ table'[k].status \in {"PROCESSING", "FAILED"}
             \/ /\ table[k].status = "PROCESSING"
                /\ table'[k].status \in {"PROCESSING", "COMPLETED", "FAILED"}

C28_StatusOrder == [][C28_StatusStep]_vars


-----------------------------------------------------------------------------
(* C29: in the JSON path an exception of the batch hook or of a checkpoint  *)
(* write makes the run fail (record FAILED, success = false): it is never   *)
(* swallowed, no record is counted twice, and a content that parsed as a    *)
(* JSON array is never processed a second time as JSON Lines.               *)

C29_Records ==
    CASE prFile.shape = "array" -> prFile.n
      [] prFile.shape = "lines" -> prFile.valid
      [] OTHER -> 1

C29_JsonThrowFails ==
    (prPc # "idle" /\ Strategy(prFile) = "json") =>
        /\ (prPc = "returned" /\ Thrown \cap {"processBatch", "updateProgress"} # {})
              => /\ prResult.success = FALSE
                 /\ table[prState].status = "FAILED"
        /\ prRowCount <= C29_Records
        /\ prFile.shape = "array"
              => prPc \notin {"jsonLines", "jsonLinesBatch", "jsonLinesCheckpoint"}


-----------------------------------------------------------------------------
(* C30: for a JSON file whose content is a JSON array with a first element  *)
(* that satisfies the schema, structure validation reports valid for every  *)
(* file size, files longer than the 16 KiB sample included; likewise for a  *)
(* single JSON object longer than the sample.                               *)

C30_ValidWhateverTheSize ==
    ( /\ smResult.error # "none"
      /\ smFile.shape \in {"array", "object"} /\ smFile.n > 0
      /\ smFile.firstOk )
    => smResult.valid


-----------------------------------------------------------------------------
(* C31: in the CSV path, in a run in which nothing throws, every data row   *)
(* is passed to the batch hook exactly once and in file order: the flushed  *)
(* batches follow one another from row 1, every batch but the last holds    *)
(* exactly 1000 rows, the last between 1 and 1000, and together they hold   *)
(* all rows once the loop has ended; a checkpoint is written exactly when   *)
(* the row count reaches a multiple of 10,000, carrying that row count.     *)

C31_Rows == IF prFile.lines > 0 THEN prFile.lines - 1 ELSE 0

\* the row count of the last checkpoint written to the record, 0 before any
C31_Checkpointed ==
    IF prState = NoState \/ table[prState].rowCount = NoNum THEN 0
    ELSE table[prState].rowCount

C31_BatchesAndCheckpoints ==
    (prPc # "idle" /\ Strategy(prFile) = "csv" /\ prThrown = <<>>) =>
        /\ \A i \in 1..Len(prFlushed) :
              /\ prFlushed[i].first = (i - 1) * BatchSize + 1
              /\ prFlushed[i].size \in 1..BatchSize
              /\ i < Len(prFlushed) => prFlushed[i].size = BatchSize
              /\ prFlushed[i].first + prFlushed[i].size - 1 <= prRowCount
        /\ prPc \in {"markCompleted", "reportSuccess", "returned"} =>
              /\ prRowCount = C31_Rows
              /\ Len(prFlushed) = CeilDiv(C31_Rows, BatchSize)
              /\ Len(prFlushed) > 0 =>
                    prFlushed[Len(prFlushed)].first + prFlushed[Len(prFlushed)].size - 1
                        = C31_Rows
        /\ prPc \in {"csvLines", "csvTail", "markCompleted"} =>
              C31_Checkpointed = (prRowCount \div CheckpointRows) * CheckpointRows
        /\ prPc \in {"csvBatch", "csvCheckpoint"} =>
              C31_Checkpointed = ((prRowCount - 1) \div CheckpointRows) * CheckpointRows

\* a file of a header and 10001 rows: ten full batches, a checkpoint at row
\* 10000 and a last batch of one row
C31_Witness ==
    /\ prPc = "markCompleted" /\ Strategy(prFile) = "csv" /\ prThrown = <<>>
    /\ prRowCount = CheckpointRows + 1
    /\ Len(prFlushed) = 11 /\ prFlushed[11] = BatchOf(CheckpointRows + 1, 1)
    /\ C31_Checkpointed = CheckpointRows


-----------------------------------------------------------------------------
(* C32: validateCsvColumns returns valid:true with no errors iff every      *)
(* required column appears in the header under case-insensitive comparison  *)
(* and every required date or number column whose first-row value is        *)
(* non-empty holds a value of that type; otherwise errors holds exactly one *)
(* entry per offending required column, in schema order, naming it.         *)

\* the header cells that are the column, compared without case
C32_Cells(col) ==
    { i \in 1..Len(cvHeaders) : ToLowerCase(cvHeaders[i]) = ToLowerCase(col.name) }

\* the first-row value of the column: the one kept under the name of its
\* first header cell
C32_Value(col) ==
    LET first == CHOOSE i \in C32_Cells(col) : \A j \in C32_Cells(col) : i <= j
    IN  FirstRow(cvHeaders, cvValues)[cvHeaders[first]]

C32_Offending(col) ==
    \/ C32_Cells(col) = {}
    \/ /\ col.type \in {"date", "number"}
       /\ C32_Value(col) # ""
       /\ ~ValidateType(C32_Value(col), col.type, cvLenient)

C32_OffendingColumns == SelectSeq(cvSchema, C32_Offending)

C32_ValidIffNoOffendingColumn ==
    cvPc = "returned" =>
        /\ cvResult.valid <=> (\A k \in 1..Len(cvSchema) : ~C32_Offending(cvSchema[k]))
        /\ cvResult.valid <=> (cvResult.errors = <<>>)
        /\ Len(cvResult.errors) = Len(C32_OffendingColumns)
        /\ \A k \in 1..Len(cvResult.errors) :
              cvResult.errors[k].column = C32_OffendingColumns[k].name

\* a header in another case than the schema, one column accepted and the
\* other refused for its type
C32_Witness ==
    /\ cvPc = "returned"
    /\ cvHeaders = <<"Date", "amount">> /\ cvValues = <<"2024-01-01", "abc">>
    /\ cvSchema = <<ColumnDef("date", "date"), ColumnDef("Amount", "number")>>
    /\ cvResult = [valid |-> FALSE, errors |-> <<TypeError(ColumnDef("Amount", "number"))>>]


-----------------------------------------------------------------------------
(* C33: updateStatus, updateProgress, markCompleted and markFailed change   *)
(* only the record addressed by (pk, sk): its key, bucket, key name,        *)
(* startedAt, fileSize, run id and ttl stay, a write of FAILED leaves the   *)
(* rowCount, chunksProcessed and totalChunks of the last checkpoint and the *)
(* metadata in place, and no other record is changed, created or removed.   *)

C33_KeptByEveryUpdate ==
    {"pk", "sk", "bucket", "key", "startedAt", "fileSize", "dagsterRunId", "ttl"}

C33_KeptByFailed == {"rowCount", "chunksProcessed", "totalChunks", "metadata"}

\* a step of one of the four updates: the table changes and no run is added
C33_UpdateStep == table' # table /\ stRuns' = stRuns

C33_OnlyTheAddressedRecord ==
    [][C33_UpdateStep =>
        /\ DOMAIN table' = DOMAIN table
        /\ \E k \in DOMAIN table :
              /\ \A x \in DOMAIN table \ {k} : table'[x] = table[x]
              /\ \A f \in C33_KeptByEveryUpdate : table'[k][f] = table[k][f]
              /\ table'[k].status = "FAILED" =>
                    \A f \in C33_KeptByFailed : table'[k][f] = table[k][f]
              /\ ~IsTerminal(table'[k].status) =>
                    table'[k].completedAt = table[k].completedAt]_vars

\* two records of a file, one failed after a checkpoint and still holding
\* its counts, the other untouched
C33_Witness ==
    \E k, o \in DOMAIN table :
        /\ k # o
        /\ table[k].status = "FAILED" /\ table[k].errorMessage = "boom"
        /\ table[k].rowCount = 7 /\ table[k].chunksProcessed = 1
        /\ table[k].totalChunks = 2 /\ table[k].metadata = NoMeta
        /\ table[o].status = "PENDING"


-----------------------------------------------------------------------------
(* C34: the wait between two poll cycles ends as soon as the cancellation   *)
(* signal has been raised, during the wait or during the preceding cycle:   *)
(* whenever the loop waits with the signal raised, the abort listener has   *)
(* resolved the wait, so that the loop does not depend on the timer.        *)

C34_RaisedSignalEndsWait == (orPc = "wait" /\ aborted) => woken


-----------------------------------------------------------------------------
(* C35: in continuous mode a queue message that was parsed without error    *)
(* and whose RunRequests were all handed to onRunRequest is deleted from    *)
(* the queue by the loop after the hand-off: once the cycle has reached its *)
(* wait, the message eventually leaves the queue, unless the loop is        *)
(* cancelled first.                                                         *)

\* the cycle is over and every request of the message went to onRunRequest
C35_HandedOff(id) ==
    /\ orPc = "wait"
    /\ id \in orCycle
    /\ Handled(Catalogue(id))

C35_HandedOffMessageDeleted ==
    \A id \in MessageIds : C35_HandedOff(id) ~> (id \notin queue \/ aborted)


-----------------------------------------------------------------------------
(* C36: the receiptHandles returned by pollSensor hold the handle of a      *)
(* received message iff the message had a body and was parsed and routed    *)
(* without an exception, once each and in message order: a message all of   *)
(* whose records were skipped as unregistered is among them, a message with *)
(* a missing body or invalid JSON is not.                                   *)

C36_WithoutException(id) ==
    Catalogue(id).hasBody /\ ParseS3Records(Catalogue(id).body).ok

RECURSIVE C36_Expected(_)
C36_Expected(ids) ==
    IF ids = <<>> THEN <<>>
    ELSE (IF C36_WithoutException(Head(ids))
          THEN <<Catalogue(Head(ids)).ReceiptHandle>> ELSE <<>>)
         \o C36_Expected(Tail(ids))

C36_HandlesOfHandledMessages ==
    cliPc = "output" =>
        /\ cliOut.receiptHandles = C36_Expected(cliReceived)
        /\ \A i \in 1..Len(cliReceived) :
              (\E j \in 1..Len(cliOut.receiptHandles) :
                    cliOut.receiptHandles[j] = Catalogue(cliReceived[i]).ReceiptHandle)
              <=> C36_WithoutException(cliReceived[i])
        /\ \A i \in 1..Len(cliReceived) :
              /\ Catalogue(cliReceived[i]).body.kind = "invalid" =>
                    ~C36_WithoutException(cliReceived[i])
              /\ (Catalogue(cliReceived[i]).hasBody
                    /\ Catalogue(cliReceived[i]).body.kind = "enriched"
                    /\ ~Catalogue(cliReceived[i]).body.enrichment.registered) =>
                    C36_WithoutException(cliReceived[i])

\* invalid JSON, an envelope of an unregistered file and a missing body: one
\* handle and no run request
C36_Witness ==
    /\ cliPc = "output"
    /\ cliReceived = <<"m3", "m4", "m7">>
    /\ cliOut.receiptHandles = <<"h4">>
    /\ cliOut.runRequests = <<>>


-----------------------------------------------------------------------------
(* C37: at every point processedRunKeys holds exactly the run keys of the   *)
(* dispatches that returned success: a key enters only when                 *)
(* processFileWithPipes has returned, never on failure and never before the *)
(* dispatch; a request whose key is not in the set is dispatched (again,    *)
(* after a failure), and a key whose dispatch succeeded is never dispatched *)
(* again.                                                                   *)

C37_Succeeded == { runs[i].runKey : i \in { j \in 1..Len(runs) : runs[j].status = "success" } }

C37_ExactlyTheSucceeded ==
    /\ processedRunKeys = C37_Succeeded
    /\ \A i, j \in 1..Len(runs) :
          (i < j /\ runs[i].runKey = runs[j].runKey) => runs[i].status = "failed"

\* onRunRequest is entered with a request: it is dispatched iff its key is
\* not in the set
C37_HandOff ==
    (orPc = "handoff" /\ sensorPolls' = sensorPolls + 1) =>
        /\ processedRunKeys' = processedRunKeys
        /\ IF Head(orPending).runKey \in processedRunKeys
           THEN runs' = runs /\ orPc' # "dispatching"
           ELSE /\ orPc' = "dispatching" /\ Len(runs') = Len(runs) + 1
                /\ runs'[Len(runs')].runKey = Head(orPending).runKey

\* the set changes only at the end of a dispatch, by the key dispatched
C37_SetStep ==
    processedRunKeys' # processedRunKeys =>
        /\ orPc = "dispatching"
        /\ runs'[Len(runs')].status = "success"
        /\ processedRunKeys' = processedRunKeys \cup {runs[Len(runs)].runKey}

-----------------------------------------------------------------------------
(* C38: every RunRequest the router emits from an enriched envelope is for  *)
(* a file that itself passed the gates of the enrichment (no junk suffix, a *)
(* registered config, an allowed extension): a file in a later record of a  *)
(* multi-record event gets no RunRequest from the decision on the first.    *)

C38_PassesKeyGates(key) ==
    /\ ~IsJunkFile(key)
    /\ key.folder \in ConfigFolders
    /\ IsExtensionAllowed(key, ConfigOf(key.folder).allowed_extensions)

\* the records of the event whose key the request names
C38_RecordsNamed(s3_event, request) ==
    { j \in 1..Len(RecordsOf(s3_event)) :
        KeyName(RecordsOf(s3_event)[j]) = request.config.s3Key }

C38_EveryRoutedFilePassedTheGates ==
    \A i \in 1..Len(enResults) :
        LET s3_event == enEvents[i].s3_event
            requests == RequestsOfMessage(EnvelopeOf(s3_event, enResults[i].enrichment_data))
        IN  \A r \in 1..Len(requests) :
                \A j \in C38_RecordsNamed(s3_event, requests[r]) :
                    C38_PassesKeyGates(RecordsOf(s3_event)[j])


-----------------------------------------------------------------------------
(* C40: a file whose dataset config sets compute_target FARGATE is never    *)
(* given task_size "lambda": every RunRequest the router builds from an     *)
(* enriched record with compute_target FARGATE names a container tier.      *)

C40_ContainerTiers == {"small", "medium", "large", "xlarge"}

C40_FargateNeverLambda ==
    \A i \in 1..Len(enResults) :
        LET requests == RequestsOfMessage(EnvelopeOf(enEvents[i].s3_event,
                                                     enResults[i].enrichment_data))
        IN  enResults[i].enrichment_data.compute_target = "FARGATE" =>
                \A r \in 1..Len(requests) :
                    /\ requests[r].tags.task_size \in C40_ContainerTiers
                    /\ requests[r].config.taskSize \in C40_ContainerTiers


-----------------------------------------------------------------------------
(* C39: the lines yielded by streamLines do not depend on the transport     *)
(* chunks: for every content and every chunking they are the content split *)
(* at the newlines with the blank lines dropped, in order, each with its    *)
(* line number counted over all lines, a line across a chunk boundary       *)
(* yielded once and whole, a last line without newline included.            *)

C39_Expected == YieldedFrom(SplitAtNewlines(lnContent), 0)

C39_LinesWhateverTheChunks == lnPc = "done" => lnYielded = C39_Expected


=============================================================================
